---------------------------- MODULE Spec2Model ----------------------------
(***************************************************************************)
(* Model of the THPT 2025 exam-result crawler: the single-probe            *)
(* orchestrator (main.py), the batched orchestrator (main_enhanced.py),    *)
(* the skip ledger (src/crawler_skip_manager.py) and the result sink       *)
(* (src/results_saver.py).                                                 *)
(*                                                                         *)
(* Strings of digits are sequences of digits, so that formatting           *)
(* (f"{n:06d}") and parsing (s[:2], int(s[2:])) are computed, not assumed. *)
(* Python dicts are functions whose domain is the set of keys; the empty   *)
(* dict is << >>.                                                          *)
(***************************************************************************)
EXTENDS Integers, Sequences, FiniteSets, TLC

VARIABLES
    skip_manager,   \* CrawlerSkipManager: its five attributes and the three files
    ret,            \* value returned by the last ledger call made directly (LedgerSpec)
    mode,           \* which part of the program the run drives: "single" (main.py),
                    \* "batched" (main_enhanced.py), "ledger", "persist",
                    \* "generator", "fetch"
    generator,      \* RegistrationNumberGenerator: its configuration and the last call
    api_scraper,    \* the backend resource of a run (web_scraper_pool / ApiScraper);
                    \* in FetchSpec the semaphore and the tasks of fetch_batch
    backend,        \* what the remote service answers (fixed during a run)
    pc,             \* position of the orchestrator's control flow
    council_num,    \* loop variable of the region loop
    student_number, \* cursor inside the region
    consecutive_failures, \* the orchestrator's consecutive-failure count
    council_successful,   \* successes found in this region
    inflight,       \* identifiers handed to the backend and not yet answered
    attempt,        \* retry attempt of crawl_registration_number
    stats,          \* total_processed / total_successful / total_failed / last_save_count
    results_saver,  \* ResultsSaver: results, stats, json_file
    interrupted,    \* "no", "kbd" (KeyboardInterrupt raised in the coroutine), "cancel"
    history,        \* call counts and the report, kept to state ordering properties
    exit_code       \* process exit code, -1 while running

vars == <<skip_manager, ret, mode, generator, api_scraper, backend, pc, council_num, student_number,
          consecutive_failures, council_successful, inflight, attempt, stats,
          results_saver, interrupted, history, exit_code>>

orch_vars == <<mode, generator, api_scraper, backend, pc, council_num, student_number,
               consecutive_failures, council_successful, inflight, attempt, stats,
               results_saver, interrupted, history, exit_code>>

-----------------------------------------------------------------------------
(* Digit strings *)

RECURSIVE Digits(_)
Digits(n) == IF n < 10 THEN <<n>> ELSE Append(Digits(n \div 10), n % 10)

\* f"{n:0wd}": at least w digits, zero-padded on the left
ZeroPad(n, w) ==
    LET d == Digits(n)
    IN  IF Len(d) >= w THEN d ELSE [i \in 1..(w - Len(d)) |-> 0] \o d

\* int(s) for a string of decimal digits
RECURSIVE ParseInt(_)
ParseInt(s) == IF Len(s) = 0 THEN 0
               ELSE 10 * ParseInt(SubSeq(s, 1, Len(s) - 1)) + s[Len(s)]

\* f"{council_num:02d}"
CouncilCode(n) == ZeroPad(n, 2)

\* f"{council_code}{student_number:06d}"
RegistrationNumber(council_code, n) == council_code \o ZeroPad(n, 6)

\* registration_number[:2] and int(registration_number[2:])
CodeOf(rn) == SubSeq(rn, 1, 2)
StudentOf(rn) == ParseInt(SubSeq(rn, 3, Len(rn)))

Max(a, b) == IF a >= b THEN a ELSE b

\* dict.get(key, default)
Get(d, k, default) == IF k \in DOMAIN d THEN d[k] ELSE default

\* d[k] = v
Put(d, k, v) == (k :> v) @@ d

\* list(a_set): the members in some order without repetition (Python leaves
\* the order open; the model lists them by their numeral, length first)
SortKey(rn) == ParseInt(<<1>> \o rn)
SetToList(S) ==
    [i \in 1..Cardinality(S) |->
        CHOOSE x \in S : Cardinality({y \in S : SortKey(y) < SortKey(x)}) = i - 1]

ListToSet(s) == {s[i] : i \in 1..Len(s)}

-----------------------------------------------------------------------------
(* Skip ledger: src/src/crawler_skip_manager.py *)

failure_threshold == 100
SkipSpan == 1000

\* A file on disk: absent, holding the JSON text of `data`, holding text that
\* json.load rejects ("corrupt"), or one that open() cannot read ("unreadable")
MissingFile == [exists |-> FALSE, fault |-> "none", data |-> <<>>]
JsonFile(d) == [exists |-> TRUE, fault |-> "none", data |-> d]
CorruptFile == [exists |-> TRUE, fault |-> "corrupt", data |-> <<>>]
UnreadableFile == [exists |-> TRUE, fault |-> "unreadable", data |-> <<>>]

\* open(path, "r") and json.load(f): the exception they raise, "none" if none
ReadError(f) ==
    IF f.fault = "unreadable" THEN "OSError"
    ELSE IF f.fault = "corrupt" THEN "JSONDecodeError"
    ELSE "none"

LoaderCatches_DecodeOnly(exc) == exc = "JSONDecodeError"

\* `except Exception as e:` of the three loaders
LoaderCatches(exc) == exc \in {"OSError", "JSONDecodeError"}

\* an exception leaves the loader
LoaderRaises(f) == f.exists /\ ReadError(f) # "none" /\ ~LoaderCatches(ReadError(f))

\* _load_*: a missing file, or a caught exception, gives the empty structure
LoadDict(f) == IF f.exists /\ ReadError(f) = "none" THEN f.data ELSE <<>>
LoadSet(f) == IF f.exists /\ ReadError(f) = "none" THEN ListToSet(f.data) ELSE {}

\* an exception leaves __init__
ConstructRaises(rf, lf, pf) == LoaderRaises(rf) \/ LoaderRaises(lf) \/ LoaderRaises(pf)

\* os.makedirs + open(path, "w") + json.dump: "ok"; "open_fails" (makedirs or
\* open raises, the file is untouched); "write_fails" (the file was truncated
\* by open and json.dump raises before the text is complete)
IoOutcomes == {"ok", "open_fails", "write_fails"}

WriteFile(old, d, io) ==
    IF io = "ok" THEN JsonFile(d)
    ELSE IF io = "open_fails" THEN old
    ELSE CorruptFile

\* the _save_* methods have no except clause: a failed write raises
SaveRaises(io) == io # "ok"

\* __init__: load the three structures, empty runtime tracking
NewSkipManager(rf, lf, pf) ==
    [skip_ranges |-> LoadDict(rf),
     council_limits |-> LoadDict(lf),
     invalid_patterns |-> LoadSet(pf),
     consecutive_failures |-> <<>>,
     last_valid_number |-> <<>>,
     skip_ranges_file |-> rf,
     council_limits_file |-> lf,
     invalid_patterns_file |-> pf]

\* the ledger object built from the files on disk
Constructed(L) ==
    NewSkipManager(L.skip_ranges_file, L.council_limits_file, L.invalid_patterns_file)

\* the _save_* methods under a given outcome of the write
try_save_skip_ranges(L, io) ==
    [L EXCEPT !.skip_ranges_file = WriteFile(@, L.skip_ranges, io)]
try_save_council_limits(L, io) ==
    [L EXCEPT !.council_limits_file = WriteFile(@, L.council_limits, io)]
try_save_invalid_patterns(L, io) ==
    [L EXCEPT !.invalid_patterns_file = WriteFile(@, SetToList(L.invalid_patterns), io)]

try_save_all_NoPatterns(L, ios) ==
    LET L1 == try_save_skip_ranges(L, ios[1])
        L2 == try_save_council_limits(L1, ios[2])
    IN  IF SaveRaises(ios[1]) THEN [ledger |-> L1, raised |-> TRUE]
        ELSE IF SaveRaises(ios[2]) THEN [ledger |-> L2, raised |-> TRUE]
        ELSE [ledger |-> L2, raised |-> FALSE]

\* save_all under the outcomes ios[1..3] of its three writes: the first write
\* that raises ends it
try_save_all(L, ios) ==
    LET L1 == try_save_skip_ranges(L, ios[1])
        L2 == try_save_council_limits(L1, ios[2])
        L3 == try_save_invalid_patterns(L2, ios[3])
    IN  IF SaveRaises(ios[1]) THEN [ledger |-> L1, raised |-> TRUE]
        ELSE IF SaveRaises(ios[2]) THEN [ledger |-> L2, raised |-> TRUE]
        ELSE [ledger |-> L3, raised |-> SaveRaises(ios[3])]

save_all(L) == try_save_all(L, <<"ok", "ok", "ok">>).ledger

InRange(r, n) == r.start <= n /\ n <= r.end

AboveLimit_AtOrAbove(L, code, n) ==
    IF code \in DOMAIN L.council_limits THEN n >= L.council_limits[code] ELSE FALSE

AboveLimit(L, code, n) ==
    IF code \in DOMAIN L.council_limits THEN n > L.council_limits[code] ELSE FALSE

InSkipRange(L, code, n) ==
    IF code \in DOMAIN L.skip_ranges
    THEN \E i \in 1..Len(L.skip_ranges[code]) : InRange(L.skip_ranges[code][i], n)
    ELSE FALSE

should_skip(L, rn) ==
    LET council_code == CodeOf(rn)
        n == StudentOf(rn)
    IN  IF AboveLimit(L, council_code, n) THEN TRUE
        ELSE IF InSkipRange(L, council_code, n) THEN TRUE
        ELSE IF rn \in L.invalid_patterns THEN TRUE
        ELSE FALSE

SkipRange(start_student, end_student, reason) ==
    [start |-> start_student, end |-> end_student, reason |-> reason,
     added_at |-> "ctime"]

\* add_skip_range under a given outcome of its write
try_add_skip_range(L, council_code, start_student, end_student, reason, io) ==
    LET old == Get(L.skip_ranges, council_code, <<>>)
        new == Append(old, SkipRange(start_student, end_student, reason))
        L1 == [L EXCEPT !.skip_ranges = Put(L.skip_ranges, council_code, new)]
    IN  [ledger |-> try_save_skip_ranges(L1, io), raised |-> SaveRaises(io)]

PromoteNow_AtFirst(count) == count >= 1

PromoteNow_Late(count) == count > failure_threshold

PromoteNow(count) == count >= failure_threshold

\* record_failure under a given outcome of the write of its promotion path;
\* neither record_failure nor add_skip_range has a try statement
try_record_failure(L, rn, io) ==
    LET council_code == CodeOf(rn)
        n == StudentOf(rn)
        key == <<council_code, n>>
        count == Get(L.consecutive_failures, key, 0) + 1
        L1 == [L EXCEPT !.consecutive_failures = Put(L.consecutive_failures, key, count),
                        !.invalid_patterns = L.invalid_patterns \cup {rn}]
    IN  IF PromoteNow(count)
        THEN try_add_skip_range(L1, council_code, n, n + SkipSpan,
                                "consecutive_failures", io)
        ELSE [ledger |-> L1, raised |-> FALSE]

record_failure(L, rn) == try_record_failure(L, rn, "ok").ledger

record_success_Overwrite(L, rn) ==
    LET council_code == CodeOf(rn)
        n == StudentOf(rn)
        key == <<council_code, n>>
    IN  [L EXCEPT !.last_valid_number = Put(L.last_valid_number, council_code, n),
                  !.consecutive_failures = Put(L.consecutive_failures, key, 0)]

record_success(L, rn) ==
    LET council_code == CodeOf(rn)
        n == StudentOf(rn)
        key == <<council_code, n>>
    IN  [L EXCEPT !.last_valid_number =
                      Put(L.last_valid_number, council_code,
                          Max(Get(L.last_valid_number, council_code, 0), n)),
                  !.consecutive_failures = Put(L.consecutive_failures, key, 0)]

LowersLimit_AnyChange(L, council_code, max_student_number) ==
    IF council_code \in DOMAIN L.council_limits
    THEN max_student_number # L.council_limits[council_code]
    ELSE TRUE

LowersLimit(L, council_code, max_student_number) ==
    IF council_code \in DOMAIN L.council_limits
    THEN max_student_number < L.council_limits[council_code]
    ELSE TRUE   \* current_limit = float("inf")

\* set_council_limit under a given outcome of its write
try_set_council_limit(L, council_code, max_student_number, io) ==
    IF LowersLimit(L, council_code, max_student_number)
    THEN [ledger |-> try_save_council_limits(
                         [L EXCEPT !.council_limits =
                              Put(L.council_limits, council_code, max_student_number)],
                         io),
          raised |-> SaveRaises(io)]
    ELSE [ledger |-> L, raised |-> FALSE]

set_council_limit(L, council_code, max_student_number) ==
    try_set_council_limit(L, council_code, max_student_number, "ok").ledger

RECURSIVE SumLen(_, _)
SumLen(d, keys) ==
    IF keys = {} THEN 0
    ELSE LET k == CHOOSE x \in keys : TRUE
         IN  Len(d[k]) + SumLen(d, keys \ {k})

get_skip_stats(L) ==
    [councils_with_limits |-> Cardinality(DOMAIN L.council_limits),
     total_skip_ranges |-> SumLen(L.skip_ranges, DOMAIN L.skip_ranges),
     invalid_patterns |-> Cardinality(L.invalid_patterns),
     consecutive_failures_tracked |-> Cardinality(DOMAIN L.consecutive_failures),
     last_valid_numbers |-> Cardinality(DOMAIN L.last_valid_number)]

-----------------------------------------------------------------------------
(* The ledger driven directly through its public methods (LedgerSpec) *)

MaxExtra == 1    \* calls of record_failure for the hot key beyond the threshold
MaxOther == 1    \* calls of record_failure for the other key
MaxRanges == 2   \* skip ranges added in one session

HotCouncil == CouncilCode(1)
HotId == RegistrationNumber(HotCouncil, 5)
OtherId == RegistrationNumber(HotCouncil, 5 + SkipSpan)
LFailIds == {HotId, OtherId}
LQueryIds == {RegistrationNumber(CouncilCode(c), n) :
                 c \in {1, 2}, n \in {4, 5, 200, 201, 5 + SkipSpan, 6 + SkipSpan}}
LimitValues == {200, 500, 800}

NoRet == [op |-> "none", value |-> FALSE]

\* Files found at construction: none, or files left by an operator / earlier session
LedgerFiles ==
    { [r |-> MissingFile, l |-> MissingFile, p |-> MissingFile],
      [r |-> JsonFile(Put(<<>>, CouncilCode(2), <<SkipRange(4, 5, "not_found")>>)),
       l |-> JsonFile(Put(<<>>, CouncilCode(2), 200)),
       p |-> JsonFile(<<RegistrationNumber(HotCouncil, 4)>>)] }

Idle ==
    /\ generator = <<>>
    /\ api_scraper = <<>>
    /\ backend = "none"
    /\ pc = "ledger"
    /\ council_num = 0
    /\ student_number = 0
    /\ consecutive_failures = 0
    /\ council_successful = 0
    /\ inflight = <<>>
    /\ attempt = 0
    /\ stats = <<>>
    /\ results_saver = <<>>
    /\ interrupted = "no"
    /\ history = <<>>
    /\ exit_code = -1

LInit ==
    /\ mode = "ledger"
    /\ \E f \in LedgerFiles : skip_manager = NewSkipManager(f.r, f.l, f.p)
    /\ ret = NoRet
    /\ Idle

CallCap(rn) == IF rn = HotId THEN failure_threshold + MaxExtra ELSE MaxOther

LShouldSkip(rn) ==
    /\ ret' = [op |-> "should_skip", value |-> should_skip(skip_manager, rn)]
    /\ UNCHANGED <<skip_manager, orch_vars>>

LRecordFailure(rn) ==
    /\ Get(skip_manager.consecutive_failures, <<CodeOf(rn), StudentOf(rn)>>, 0) < CallCap(rn)
    /\ get_skip_stats(skip_manager).total_skip_ranges < MaxRanges
    /\ skip_manager' = record_failure(skip_manager, rn)
    /\ ret' = NoRet
    /\ UNCHANGED orch_vars

LRecordSuccess(rn) ==
    /\ skip_manager' = record_success(skip_manager, rn)
    /\ ret' = NoRet
    /\ UNCHANGED orch_vars

LSetCouncilLimit(code, v) ==
    /\ skip_manager' = set_council_limit(skip_manager, code, v)
    /\ ret' = NoRet
    /\ UNCHANGED orch_vars

LSaveAll ==
    /\ skip_manager' = save_all(skip_manager)
    /\ ret' = NoRet
    /\ UNCHANGED orch_vars

LNext ==
    \/ \E rn \in LQueryIds : LShouldSkip(rn)
    \/ \E rn \in LFailIds : LRecordFailure(rn)
    \/ \E rn \in LFailIds : LRecordSuccess(rn)
    \/ \E v \in LimitValues : LSetCouncilLimit(HotCouncil, v)
    \/ LSaveAll

LedgerSpec == LInit /\ [][LNext]_vars

-----------------------------------------------------------------------------
(* The ledger across sessions, with files that may be damaged and writes that
   may fail (PersistSpec) *)

\* what an earlier session, or an operator, may have left in each file
PersistFiles ==
    [r : {MissingFile, CorruptFile, UnreadableFile,
          JsonFile(Put(<<>>, CouncilCode(2), <<SkipRange(4, 5, "not_found")>>))},
     l : {MissingFile, CorruptFile, UnreadableFile,
          JsonFile(Put(<<>>, CouncilCode(2), 200))},
     p : {MissingFile, CorruptFile, UnreadableFile,
          JsonFile(<<RegistrationNumber(HotCouncil, 4)>>)}]

\* outcomes of the three writes of save_all that are explored: at most one fails
SaveAllOutcomes ==
    {ios \in [1..3 -> IoOutcomes] : Cardinality({i \in 1..3 : ios[i] # "ok"}) <= 1}

\* the last ledger call: its name, whether it raised, the outcome of the
\* write it made ("none" if it wrote nothing), whether it added a skip range,
\* and for a construction the call before it
PRet(op, raised, io, promoted, prev) ==
    [op |-> op, raised |-> raised, io |-> io, promoted |-> promoted, prev |-> prev]

persist_unchanged ==
    <<mode, generator, api_scraper, backend, pc, council_num, student_number,
      consecutive_failures, council_successful, inflight, attempt, stats,
      results_saver, interrupted, exit_code>>

PInit ==
    /\ mode = "persist"
    /\ \E f \in PersistFiles :
          /\ skip_manager = NewSkipManager(f.r, f.l, f.p)
          /\ ret = PRet("construct", ConstructRaises(f.r, f.l, f.p), "none", FALSE,
                        "none")
    /\ generator = <<>>
    /\ api_scraper = <<>>
    /\ backend = "none"
    /\ pc = "ledger"
    /\ council_num = 0
    /\ student_number = 0
    /\ consecutive_failures = 0
    /\ council_successful = 0
    /\ inflight = <<>>
    /\ attempt = 0
    /\ stats = <<>>
    /\ results_saver = <<>>
    /\ interrupted = "no"
    /\ history = [calls |-> 0]     \* record_failure calls made in all sessions
    /\ exit_code = -1

Promotes(L, rn) ==
    PromoteNow(Get(L.consecutive_failures, <<CodeOf(rn), StudentOf(rn)>>, 0) + 1)

\* the other calls are explored from the call before the promotion on
Warm == history.calls >= failure_threshold - 1

PRecordFailure(rn, io) ==
    /\ history.calls < failure_threshold + MaxExtra
    /\ get_skip_stats(skip_manager).total_skip_ranges < MaxRanges
    /\ LET r == try_record_failure(skip_manager, rn, io)
           promoted == Promotes(skip_manager, rn)
       IN  /\ skip_manager' = r.ledger
           /\ ret' = PRet("record_failure", r.raised,
                          IF promoted THEN io ELSE "none", promoted, "none")
    /\ history' = [history EXCEPT !.calls = @ + 1]
    /\ UNCHANGED persist_unchanged

PSetCouncilLimit(code, v, io) ==
    /\ Warm
    /\ LET r == try_set_council_limit(skip_manager, code, v, io)
           wrote == LowersLimit(skip_manager, code, v)
       IN  /\ skip_manager' = r.ledger
           /\ ret' = PRet("set_council_limit", r.raised,
                          IF wrote THEN io ELSE "none", FALSE, "none")
    /\ UNCHANGED <<persist_unchanged, history>>

PSaveAll(ios) ==
    /\ Warm
    /\ LET r == try_save_all(skip_manager, ios)
       IN  /\ skip_manager' = r.ledger
           /\ ret' = PRet("save_all", r.raised,
                          IF r.raised THEN "failed" ELSE "ok", FALSE, "none")
    /\ UNCHANGED <<persist_unchanged, history>>

\* the process ends and a later run constructs the ledger from the files
PRestart ==
    /\ Warm
    /\ ret.op # "construct"
    /\ skip_manager' = Constructed(skip_manager)
    /\ ret' = PRet("construct",
                   ConstructRaises(skip_manager.skip_ranges_file,
                                   skip_manager.council_limits_file,
                                   skip_manager.invalid_patterns_file),
                   "none", FALSE, IF ret.raised THEN "raised" ELSE ret.op)
    /\ UNCHANGED <<persist_unchanged, history>>

PNext ==
    \/ \E io \in IoOutcomes : PRecordFailure(HotId, io)
    \/ \E io \in IoOutcomes : PSetCouncilLimit(HotCouncil, 500, io)
    \/ \E ios \in SaveAllOutcomes : PSaveAll(ios)
    \/ PRestart

PersistSpec == PInit /\ [][PNext]_vars

-----------------------------------------------------------------------------
(* Result sink: src/src/results_saver.py.  A record is represented by its
   registration_number; << >> stands for a falsy result. *)

NewResultsSaver ==
    [results |-> <<>>,
     stats |-> [total_processed |-> 0, successful |-> 0, failed |-> 0],
     json_file |-> MissingFile,
     csv_file |-> MissingFile,
     summary_file |-> MissingFile]

add_result(RS, result) ==
    LET RS1 == IF result # <<>>
               THEN [RS EXCEPT !.results = Append(@, result),
                               !.stats.successful = @ + 1]
               ELSE RS
    IN  [RS1 EXCEPT !.stats.total_processed = @ + 1]

save_json(RS) == [RS EXCEPT !.json_file = JsonFile(RS.results)]

save_csv(RS) ==
    IF RS.results = <<>> THEN RS ELSE [RS EXCEPT !.csv_file = JsonFile(RS.results)]

save_summary(RS) ==
    LET st == [RS.stats EXCEPT !.failed = RS.stats.total_processed - RS.stats.successful]
    IN  [RS EXCEPT !.stats = st, !.summary_file = JsonFile(st)]

results_save_all(RS) == save_summary(save_csv(save_json(RS)))

-----------------------------------------------------------------------------
(* Bounds of the explored runs *)

NumCouncils == 2     \* regions of the region loop that are explored
SingleHi == 112      \* last sequence number with data in the long single-probe scenario
BatchSpan == 10049   \* sequence numbers with data in the long batched scenario

(* Program constants *)

SingleFirstCouncil == 1       \* range(1, 66)
LastCouncilCode == 65         \* range(.., 66)
SingleStopThreshold == 10     \* while consecutive_failures < 10
SingleSaveInterval == 100     \* total_successful - last_save_count >= 100
max_retries == 2              \* crawl_registration_number
start_council == 48
start_student_number == 34201
BatchStopThreshold == 1000    \* while consecutive_failures < 1000
batch_size == 100
BatchSaveInterval == 10000

Modes == {"single", "batched"}

FirstCouncil(m) == IF m = "single" THEN SingleFirstCouncil ELSE start_council

Min(a, b) == IF a <= b THEN a ELSE b

\* last region of the explored part of the region loop
LastCouncil(m) == Min(LastCouncilCode, FirstCouncil(m) + NumCouncils - 1)

StartNumber_ResumeEverywhere(m, c) ==
    IF m = "batched" THEN start_student_number ELSE 1

\* cursor at region entry: 1, or the resume point in the first batched region
StartNumber(m, c) ==
    IF m = "batched" /\ c = start_council THEN start_student_number ELSE 1

-----------------------------------------------------------------------------
(* The remote service.  A scenario fixes, per region and sequence number,
   whether a record exists and whether the request raises. *)

Scenario(cs, lo, hi, glo, ghi, once, always) ==
    [councils |-> cs, lo |-> lo, hi |-> hi, gap_lo |-> glo, gap_hi |-> ghi,
     raise_once |-> once, raise_always |-> always, malformed |-> {}]

Scenarios(m) ==
    LET f == FirstCouncil(m)
        s == StartNumber(m, f)
    IN  IF m = "single"
        THEN { Scenario({}, 1, 0, 1, 0, {}, {}),
               Scenario({f}, 10, 12, 1, 0, {}, {}),
               Scenario({f}, 11, 12, 1, 0, {}, {}),
               Scenario({f, f + 1}, 1, 30, 5, 14, {}, {}),
               Scenario({f}, 1, SingleHi, 20, 28, {3}, {4}) }
        ELSE { Scenario({}, 1, 0, 1, 0, {}, {}),
               Scenario({f}, s + 250, s + 260, 1, 0, {}, {s + 255}),
               Scenario({f}, s + 950, s + 955, 1, 0, {s + 951}, {}),
               Scenario({f}, s + 1000, s + 1200, 1, 0, {}, {}),
               Scenario({f}, s, s + BatchSpan, 1, 0, {}, {}) }

Present(B, rn) ==
    LET c == ParseInt(CodeOf(rn))
        n == StudentOf(rn)
    IN  /\ c \in B.councils
        /\ B.lo <= n /\ n <= B.hi
        /\ ~(B.gap_lo <= n /\ n <= B.gap_hi)

\* scrape_registration_number as seen by crawl_registration_number
Answer(B, rn, k) ==
    LET n == StudentOf(rn)
    IN  IF n \in B.raise_always THEN "raise"
        ELSE IF n \in B.raise_once /\ k = 0 THEN "raise"
        ELSE IF Present(B, rn) THEN "found"
        ELSE "absent"

api_max_retries == 3     \* ApiConfig.max_retries

\* what one GET of fetch_student_data meets: a network error or timeout
\* ("network"), a body that is not JSON ("malformed"), or a JSON answer with
\* the record ("record") or without one ("absent")
Response(B, rn, k) ==
    LET n == StudentOf(rn)
    IN  IF n \in B.raise_always THEN "network"
        ELSE IF n \in B.raise_once /\ k = 0 THEN "network"
        ELSE IF n \in B.malformed THEN "malformed"
        ELSE IF Present(B, rn) THEN "record"
        ELSE "absent"

\* fetch_student_data from attempt k on: the value returned (the record, or
\* << >> for None) and the number of requests sent.  Every except clause
\* (171-200) falls through to the next attempt; only a JSON answer returns
\* from inside the loop.
RECURSIVE fetch_student_data(_, _, _)
fetch_student_data(B, rn, k) ==
    IF ~(k < api_max_retries) THEN [value |-> <<>>, requests |-> k]
    ELSE IF Response(B, rn, k) \in {"network", "malformed"}
         THEN fetch_student_data(B, rn, k + 1)
    ELSE [value |-> IF Response(B, rn, k) = "record" THEN rn ELSE <<>>,
          requests |-> k + 1]

Fetched(B, rn) == fetch_student_data(B, rn, 0).value # <<>>

\* fetch_batch: the records found, in request order
fetch_batch(B, nums) == SelectSeq(nums, LAMBDA rn : Fetched(B, rn))

-----------------------------------------------------------------------------
(* Files found at start of a run *)

\* identifiers an earlier single-probe run recorded as failures and saved
PriorInvalid(m) ==
    LET f == FirstCouncil(m)
        s == StartNumber(m, f)
    IN  IF m = "single"
        THEN {RegistrationNumber(CouncilCode(f), n) : n \in 1..10}
        ELSE {RegistrationNumber(CouncilCode(f), n) : n \in (s + 100)..(s + 109)}
             \cup {RegistrationNumber(CouncilCode(f + 1), n) : n \in 1..10}

PriorFiles(m) ==
    LET f == FirstCouncil(m)
        s == StartNumber(m, f)
    IN  { [r |-> MissingFile, l |-> MissingFile, p |-> MissingFile],
          [r |-> JsonFile(<<>>), l |-> JsonFile(<<>>),
           p |-> JsonFile(SetToList(PriorInvalid(m)))],
          [r |-> JsonFile(Put(<<>>, CouncilCode(f),
                              <<SkipRange(s + 5, s + 6, "not_found")>>)),
           l |-> JsonFile(Put(<<>>, CouncilCode(f), s + 14)),
           p |-> MissingFile] }

pool_size == 1           \* main.py: pool_size
pool_max_retries == 2    \* initialize_web_scraper_pool: max_retries

\* The backend resource: `pool` counts what cleanup reaches (the scrapers in
\* web_scraper_pool, or the session of self.api_scraper), `unclosed` counts
\* the browsers / sessions that were started and not closed.  Started(0) is
\* the resource before the start; Started(n) after n scrapers were started.
Started(n) == [pool |-> n, unclosed |-> n]

\* initialize_web_scraper_pool when no scraper could be started: every
\* start_browser timed out and the scraper was closed again ("timeout"),
\* async_playwright().start() raised and nothing was started
\* ("nothing_started"), or a later step of start_browser raised and the
\* except clause left the scraper as it was ("launch_raises")
FailedPool(how) ==
    [pool |-> 0,
     unclosed |-> IF how = "launch_raises" THEN pool_size * pool_max_retries ELSE 0]

\* cleanup_web_scraper_pool / cleanup_scraper: closes what it reaches
cleanup(R) == [pool |-> 0, unclosed |-> R.unclosed - R.pool]

NoReport ==
    [made |-> FALSE, processed |-> 0, successful |-> 0, failed |-> 0,
     has_rate |-> FALSE, rate_num |-> 0, rate_den |-> 1,
     flushes |-> 0, ledger_saves |-> 0]

Init ==
    /\ mode \in Modes
    /\ backend \in Scenarios(mode)
    /\ \E f \in PriorFiles(mode) :
          skip_manager = [NewSkipManager(MissingFile, MissingFile, MissingFile)
                             EXCEPT !.skip_ranges_file = f.r,
                                    !.council_limits_file = f.l,
                                    !.invalid_patterns_file = f.p]
    /\ ret = NoRet
    /\ generator = <<>>
    /\ api_scraper = Started(0)
    /\ pc = "init"
    /\ council_num = 0
    /\ student_number = 0
    /\ consecutive_failures = 0
    /\ council_successful = 0
    /\ inflight = <<>>
    /\ attempt = 0
    /\ stats = [total_processed |-> 0, total_successful |-> 0, total_failed |-> 0,
                total_skipped |-> 0, last_save_count |-> 0]
    /\ results_saver = NewResultsSaver
    /\ interrupted = "no"
    /\ history = [flushes |-> 0, ledger_saves |-> 0, report |-> NoReport,
                  int_flushes |-> 0, int_ledger_saves |-> 0, int_results |-> <<>>,
                  last |-> "none", failed_probes |-> 0]
    /\ exit_code = -1

EnterCouncil(c) ==
    /\ council_num' = c
    /\ consecutive_failures' = 0
    /\ student_number' = StartNumber(mode, c)
    /\ council_successful' = 0


-----------------------------------------------------------------------------
(* Single-probe orchestrator: main.py *)

SingleContinue(cf) == cf < SingleStopThreshold

AutoSaveDue_Late(st, interval) == st.total_successful - st.last_save_count > interval

AutoSaveDue(st, interval) == st.total_successful - st.last_save_count >= interval

\* main.py 275-297: bookkeeping after crawl_registration_number returned
\* `result` (a record, or << >> for None / False) and left the ledger as L2
SingleBook(result, L2, kind) ==
    LET found == result # <<>>
        st1 == IF found THEN [stats EXCEPT !.total_successful = @ + 1]
                        ELSE [stats EXCEPT !.total_failed = @ + 1]
        rs1 == IF found THEN add_result(results_saver, result) ELSE results_saver
        due == found /\ AutoSaveDue(st1, SingleSaveInterval)
        rs2 == IF due THEN results_save_all(rs1) ELSE rs1
        st2 == IF due THEN [st1 EXCEPT !.last_save_count = st1.total_successful] ELSE st1
    IN  /\ skip_manager' = L2
        /\ council_successful' = IF found THEN council_successful + 1 ELSE council_successful
        /\ consecutive_failures' = IF found THEN 0 ELSE consecutive_failures + 1
        /\ results_saver' = rs2
        /\ stats' = [st2 EXCEPT !.total_processed = @ + 1]
        /\ student_number' = student_number + 1
        /\ history' = [history EXCEPT
                           !.flushes = IF due THEN @ + 1 ELSE @,
                           !.last = kind,
                           !.failed_probes = IF kind = "found" THEN 0
                                             ELSE IF kind = "skipped" THEN @
                                             ELSE @ + 1]
        /\ pc' = "loop"
        /\ inflight' = <<>>
        /\ attempt' = 0
        /\ UNCHANGED <<ret, mode, generator, api_scraper, backend, council_num, interrupted, exit_code>>

\* initialize_web_scraper_pool succeeded; components are constructed
SingleStart ==
    /\ mode = "single" /\ pc = "init"
    /\ skip_manager' = Constructed(skip_manager)
    /\ EnterCouncil(SingleFirstCouncil)
    /\ api_scraper' = Started(pool_size)
    /\ pc' = "loop"
    /\ UNCHANGED <<ret, mode, generator, backend, inflight, attempt, stats, results_saver,
                   interrupted, history, exit_code>>

\* initialize_web_scraper_pool raised: log_error, cleanup, sys.exit(1)
SingleStartFails(how) ==
    /\ mode = "single" /\ pc = "init"
    /\ api_scraper' = cleanup(FailedPool(how))
    /\ pc' = "done"
    /\ exit_code' = 1
    /\ UNCHANGED <<skip_manager, ret, mode, generator, backend, council_num, student_number,
                   consecutive_failures, council_successful, inflight, attempt,
                   stats, results_saver, interrupted, history>>

CurrentNumber == RegistrationNumber(CouncilCode(council_num), student_number)

\* should_skip is true: crawl_registration_number returns False
SingleSkipped ==
    /\ mode = "single" /\ pc = "loop"
    /\ SingleContinue(consecutive_failures)
    /\ should_skip(skip_manager, CurrentNumber)
    /\ SingleBook(<<>>, skip_manager, "skipped")

\* should_skip is false: the identifier goes to the scraper
SingleDispatch ==
    /\ mode = "single" /\ pc = "loop"
    /\ SingleContinue(consecutive_failures)
    /\ ~should_skip(skip_manager, CurrentNumber)
    /\ inflight' = <<CurrentNumber>>
    /\ attempt' = 0
    /\ pc' = "fetch"
    /\ UNCHANGED <<skip_manager, ret, mode, generator, api_scraper, backend, council_num, student_number,
                   consecutive_failures, council_successful, stats, results_saver,
                   interrupted, history, exit_code>>

SingleFound ==
    /\ mode = "single" /\ pc = "fetch"
    /\ Answer(backend, inflight[1], attempt) = "found"
    /\ SingleBook(inflight[1], record_success(skip_manager, inflight[1]), "found")

SingleNotFound ==
    /\ mode = "single" /\ pc = "fetch"
    /\ Answer(backend, inflight[1], attempt) = "absent"
    /\ SingleBook(<<>>, record_failure(skip_manager, inflight[1]), "absent")

\* exception on an attempt that is not the last: sleep and try again
SingleRetry ==
    /\ mode = "single" /\ pc = "fetch"
    /\ Answer(backend, inflight[1], attempt) = "raise"
    /\ attempt < max_retries - 1
    /\ attempt' = attempt + 1
    /\ UNCHANGED <<skip_manager, ret, mode, generator, api_scraper, backend, pc, council_num, student_number,
                   consecutive_failures, council_successful, inflight, stats,
                   results_saver, interrupted, history, exit_code>>

SingleGiveUp_Raises ==
    /\ mode = "single" /\ pc = "fetch"
    /\ Answer(backend, inflight[1], attempt) = "raise"
    /\ ~(attempt < max_retries - 1)
    /\ pc' = "done"
    /\ exit_code' = 1
    /\ UNCHANGED <<skip_manager, ret, mode, generator, api_scraper, backend, council_num,
                   student_number, consecutive_failures, council_successful, inflight,
                   attempt, stats, results_saver, interrupted, history>>

\* exception on the last attempt: record_failure(.., "error"), return None
SingleGiveUp ==
    /\ mode = "single" /\ pc = "fetch"
    /\ Answer(backend, inflight[1], attempt) = "raise"
    /\ ~(attempt < max_retries - 1)
    /\ SingleBook(<<>>, record_failure(skip_manager, inflight[1]), "error")

\* the while loop ends: save results, go to the next council or leave the loop
SingleCouncilDone ==
    /\ mode = "single" /\ pc = "loop"
    /\ ~SingleContinue(consecutive_failures)
    /\ results_saver' = results_save_all(results_saver)
    /\ stats' = [stats EXCEPT !.last_save_count = stats.total_successful]
    /\ history' = [history EXCEPT !.flushes = @ + 1, !.last = "council_done",
                                  !.failed_probes = 0]
    /\ IF council_num < LastCouncil(mode)
       THEN EnterCouncil(council_num + 1) /\ pc' = "loop" /\ UNCHANGED api_scraper
       ELSE /\ pc' = "final"
            /\ api_scraper' = cleanup(api_scraper)     \* the finally clause
            /\ UNCHANGED <<council_num, consecutive_failures, student_number,
                           council_successful>>
    /\ UNCHANGED <<skip_manager, ret, mode, generator, backend, inflight, attempt, interrupted,
                   exit_code>>

\* Ctrl-C while a probe is awaited.  "kbd": KeyboardInterrupt is raised inside
\* the coroutine and caught by `except KeyboardInterrupt` (emergency save,
\* cleanup, then the code after the try statement).  "cancel": asyncio.run
\* cancels the main task; CancelledError matches no except clause, only the
\* finally clause runs and the exception leaves main().
SingleInterrupt(kind) ==
    /\ mode = "single" /\ pc = "fetch"
    /\ interrupted' = kind
    /\ inflight' = <<>>
    /\ LET h == [history EXCEPT !.int_flushes = history.flushes,
                                !.int_ledger_saves = history.ledger_saves,
                                !.int_results = results_saver.results,
                                !.last = "interrupt"]
       IN  IF kind = "kbd"
           THEN /\ results_saver' = results_save_all(results_saver)
                /\ history' = [h EXCEPT !.flushes = @ + 1]
                /\ pc' = "final"
                /\ exit_code' = exit_code
           ELSE /\ results_saver' = results_saver
                /\ history' = h
                /\ pc' = "done"
                /\ exit_code' = 130
    /\ api_scraper' = cleanup(api_scraper)     \* the finally clause
    /\ UNCHANGED <<skip_manager, ret, mode, generator, backend, council_num, student_number,
                   consecutive_failures, council_successful, attempt, stats>>

\* main.py 335-338: final save of the results
SingleFinalSave ==
    /\ mode = "single" /\ pc = "final"
    /\ results_saver' = results_save_all(results_saver)
    /\ history' = [history EXCEPT !.flushes = @ + 1, !.last = "final_save"]
    /\ pc' = "report"
    /\ UNCHANGED <<skip_manager, ret, mode, generator, api_scraper, backend, council_num, student_number,
                   consecutive_failures, council_successful, inflight, attempt, stats,
                   interrupted, exit_code>>

\* main.py 340-351: final statistics
SingleReport ==
    /\ mode = "single" /\ pc = "report"
    /\ history' = [history EXCEPT
          !.report = [made |-> TRUE,
                      processed |-> stats.total_processed,
                      successful |-> stats.total_successful,
                      failed |-> stats.total_failed,
                      has_rate |-> TRUE,
                      rate_num |-> stats.total_successful,
                      rate_den |-> Max(1, stats.total_processed - stats.total_skipped),
                      flushes |-> history.flushes,
                      ledger_saves |-> history.ledger_saves],
          !.last = "report"]
    /\ pc' = "save_skip"
    /\ UNCHANGED <<skip_manager, ret, mode, generator, api_scraper, backend, council_num, student_number,
                   consecutive_failures, council_successful, inflight, attempt, stats,
                   results_saver, interrupted, exit_code>>

\* main.py 353-363: save the skip data, print the summary, return
SingleSaveSkip ==
    /\ mode = "single" /\ pc = "save_skip"
    /\ skip_manager' = save_all(skip_manager)
    /\ history' = [history EXCEPT !.ledger_saves = @ + 1, !.last = "save_skip"]
    /\ pc' = "done"
    /\ exit_code' = 0
    /\ UNCHANGED <<ret, mode, generator, api_scraper, backend, council_num, student_number,
                   consecutive_failures, council_successful, inflight, attempt, stats,
                   results_saver, interrupted>>


-----------------------------------------------------------------------------
(* Batched orchestrator: main_enhanced.py *)

BatchContinue(cf) == cf < BatchStopThreshold

\* crawl_council_fast 116-122: batch_size consecutive identifiers from the cursor
BuildBatch(c, from) ==
    [i \in 1..batch_size |-> RegistrationNumber(CouncilCode(c), from + i - 1)]

\* crawl_batch_api 67-71
valid_numbers_Unfiltered(L, batch) == batch

valid_numbers(L, batch) == SelectSeq(batch, LAMBDA rn : ~should_skip(L, rn))

\* crawl_batch_api 80-86: record every dispatched identifier
RecordOne(L, rn, found) ==
    IF rn \in found THEN record_success(L, rn) ELSE record_failure(L, rn)

\* the loop over nums[lo..hi]; it is evaluated half by half, left to right,
\* so that the evaluation stays shallow (the DOMAIN test is never true)
RECURSIVE RecordRange(_, _, _, _, _)
RecordRange(L, nums, found, lo, hi) ==
    IF lo > hi THEN L
    ELSE IF lo = hi THEN RecordOne(L, nums[lo], found)
    ELSE LET mid == (lo + hi) \div 2
             M == RecordRange(L, nums, found, lo, mid)
         IN  IF DOMAIN M = {} THEN M ELSE RecordRange(M, nums, found, mid + 1, hi)

RecordBatch(L, nums, found) == RecordRange(L, nums, found, 1, Len(nums))

\* crawl_council_fast 136-138: results_saver.add_result for every result
RECURSIVE AddRange(_, _, _, _)
AddRange(RS, rs, lo, hi) ==
    IF lo > hi THEN RS
    ELSE IF lo = hi THEN add_result(RS, rs[lo])
    ELSE LET mid == (lo + hi) \div 2
             M == AddRange(RS, rs, lo, mid)
         IN  IF DOMAIN M = {} THEN M ELSE AddRange(M, rs, mid + 1, hi)

AddResults(RS, rs) == AddRange(RS, rs, 1, Len(rs))

BatchFailures_PerBatch(cf, results, n) == IF results # <<>> THEN 0 ELSE cf + 1

\* consecutive-failure count after a batch of n identifiers with the given results
BatchFailures(cf, results, n) == IF results # <<>> THEN 0 ELSE cf + n

\* crawl_council_fast 130-157: bookkeeping after crawl_batch_api returned
BatchBook(results, n, L2, kind) ==
    LET found == results # <<>>
        st1 == IF found
               THEN [stats EXCEPT !.total_successful = @ + Len(results)]
               ELSE [stats EXCEPT !.total_failed = @ + n]
        st2 == [st1 EXCEPT !.total_processed = @ + n]
        rs1 == AddResults(results_saver, results)
        due == AutoSaveDue(st2, BatchSaveInterval)
        rs2 == IF due THEN results_save_all(rs1) ELSE rs1
        st3 == IF due THEN [st2 EXCEPT !.last_save_count = st2.total_successful] ELSE st2
    IN  /\ skip_manager' = L2
        /\ consecutive_failures' = BatchFailures(consecutive_failures, results, n)
        /\ council_successful' = council_successful + Len(results)
        /\ results_saver' = rs2
        /\ stats' = st3
        /\ history' = [history EXCEPT !.flushes = IF due THEN @ + 1 ELSE @,
                                      !.last = kind]
        /\ pc' = "loop"
        /\ inflight' = <<>>
        /\ UNCHANGED <<ret, mode, generator, api_scraper, backend, council_num, attempt, interrupted, exit_code>>

\* ApiCrawler() is constructed and initialize_scraper succeeded
BatchStart ==
    /\ mode = "batched" /\ pc = "init"
    /\ skip_manager' = Constructed(skip_manager)
    /\ EnterCouncil(start_council)
    /\ api_scraper' = Started(1)
    /\ pc' = "loop"
    /\ UNCHANGED <<ret, mode, generator, backend, inflight, attempt, stats, results_saver,
                   interrupted, history, exit_code>>

\* initialize_scraper raised: `except Exception` logs, then the finally clause
BatchStartFails ==
    /\ mode = "batched" /\ pc = "init"
    /\ skip_manager' = Constructed(skip_manager)
    /\ pc' = "final"
    /\ history' = [history EXCEPT !.last = "start_failed"]
    /\ UNCHANGED <<ret, mode, generator, api_scraper, backend, council_num, student_number,
                   consecutive_failures, council_successful, inflight, attempt,
                   stats, results_saver, interrupted, exit_code>>

\* every identifier of the batch is skipped: crawl_batch_api returns []
BatchAllSkipped ==
    /\ mode = "batched" /\ pc = "loop"
    /\ BatchContinue(consecutive_failures)
    /\ LET batch == BuildBatch(council_num, student_number)
       IN  /\ valid_numbers(skip_manager, batch) = <<>>
           /\ student_number' = student_number + Len(batch)
           /\ BatchBook(<<>>, Len(batch), skip_manager, "skipped")

\* the unskipped identifiers of the batch go to fetch_batch
BatchDispatch ==
    /\ mode = "batched" /\ pc = "loop"
    /\ BatchContinue(consecutive_failures)
    /\ LET batch == BuildBatch(council_num, student_number)
           valid == valid_numbers(skip_manager, batch)
       IN  /\ valid # <<>>
           /\ inflight' = valid
           /\ student_number' = student_number + Len(batch)
    /\ pc' = "fetch"
    /\ UNCHANGED <<skip_manager, ret, mode, generator, api_scraper, backend, council_num,
                   consecutive_failures, council_successful, attempt, stats,
                   results_saver, interrupted, history, exit_code>>

\* fetch_batch returned: reconcile into the ledger, then the bookkeeping
BatchReturn ==
    /\ mode = "batched" /\ pc = "fetch"
    /\ LET results == fetch_batch(backend, inflight)
       IN  /\ BatchBook(results, batch_size,
                        RecordBatch(skip_manager, inflight, ListToSet(results)),
                        IF results # <<>> THEN "found" ELSE "absent")
           /\ UNCHANGED student_number

\* crawl_council_fast returned: save after the council, next council or the end
BatchCouncilDone ==
    /\ mode = "batched" /\ pc = "loop"
    /\ ~BatchContinue(consecutive_failures)
    /\ results_saver' = results_save_all(results_saver)
    /\ stats' = [stats EXCEPT !.last_save_count = stats.total_successful]
    /\ history' = [history EXCEPT !.flushes = @ + 1, !.last = "council_done",
                                  !.failed_probes = 0]
    /\ IF council_num < LastCouncil(mode)
       THEN EnterCouncil(council_num + 1) /\ pc' = "loop"
       ELSE /\ pc' = "final"
            /\ UNCHANGED <<council_num, consecutive_failures, student_number,
                           council_successful>>
    /\ UNCHANGED <<skip_manager, ret, mode, generator, api_scraper, backend, inflight, attempt, interrupted,
                   exit_code>>

\* Ctrl-C while fetch_batch is awaited: the batch is abandoned.  "kbd" is
\* caught by `except KeyboardInterrupt` (emergency save); "cancel" matches no
\* except clause.  Both continue with the finally clause.
BatchInterrupt(kind) ==
    /\ mode = "batched" /\ pc = "fetch"
    /\ interrupted' = kind
    /\ inflight' = <<>>
    /\ LET h == [history EXCEPT !.int_flushes = history.flushes,
                                !.int_ledger_saves = history.ledger_saves,
                                !.int_results = results_saver.results,
                                !.last = "interrupt"]
       IN  IF kind = "kbd"
           THEN /\ results_saver' = results_save_all(results_saver)
                /\ history' = [h EXCEPT !.flushes = @ + 1]
           ELSE /\ results_saver' = results_saver
                /\ history' = h
    /\ pc' = "final"
    /\ UNCHANGED <<skip_manager, ret, mode, generator, api_scraper, backend, council_num, student_number,
                   consecutive_failures, council_successful, attempt, stats, exit_code>>

\* run_full_crawler 218-224: cleanup and final save
BatchFinalSave ==
    /\ mode = "batched" /\ pc = "final"
    /\ api_scraper' = cleanup(api_scraper)
    /\ results_saver' = results_save_all(results_saver)
    /\ history' = [history EXCEPT !.flushes = @ + 1, !.last = "final_save"]
    /\ pc' = "report"
    /\ UNCHANGED <<skip_manager, ret, mode, generator, backend, council_num, student_number,
                   consecutive_failures, council_successful, inflight, attempt, stats,
                   interrupted, exit_code>>

\* print_final_stats, then run_full_crawler returns (or CancelledError goes on)
BatchReport ==
    /\ mode = "batched" /\ pc = "report"
    /\ history' = [history EXCEPT
          !.report = [made |-> TRUE,
                      processed |-> stats.total_processed,
                      successful |-> stats.total_successful,
                      failed |-> stats.total_failed,
                      has_rate |-> stats.total_processed > 0,
                      rate_num |-> stats.total_successful,
                      rate_den |-> Max(1, stats.total_processed),
                      flushes |-> history.flushes,
                      ledger_saves |-> history.ledger_saves],
          !.last = "report"]
    /\ pc' = "done"
    /\ exit_code' = IF interrupted = "cancel" THEN 130 ELSE 0
    /\ UNCHANGED <<skip_manager, ret, mode, generator, api_scraper, backend, council_num, student_number,
                   consecutive_failures, council_successful, inflight, attempt, stats,
                   results_saver, interrupted>>

-----------------------------------------------------------------------------

InterruptKinds == {"kbd", "cancel"}

Next ==
    \/ SingleStart
    \/ \E how \in {"timeout", "nothing_started", "launch_raises"} : SingleStartFails(how)
    \/ SingleSkipped
    \/ SingleDispatch
    \/ SingleFound
    \/ SingleNotFound
    \/ SingleRetry
    \/ SingleGiveUp
    \/ SingleCouncilDone
    \/ \E k \in InterruptKinds : SingleInterrupt(k)
    \/ SingleFinalSave
    \/ SingleReport
    \/ SingleSaveSkip
    \/ BatchStart
    \/ BatchStartFails
    \/ BatchAllSkipped
    \/ BatchDispatch
    \/ BatchReturn
    \/ BatchCouncilDone
    \/ \E k \in InterruptKinds : BatchInterrupt(k)
    \/ BatchFinalSave
    \/ BatchReport

Spec == Init /\ [][Next]_vars



-----------------------------------------------------------------------------
(* Identifier generator: src/src/registration_number_generator.py and the
   registration part of src/src/config.py.  A string is a sequence of
   characters; the digits 0..9 stand for themselves and the other characters
   that matter to int() have the codes below. *)

Plus == 10          \* "+"
Minus == 11         \* "-"
Space == 12         \* " "
Underscore == 13    \* "_"
Letter == 14        \* any character int() rejects, such as "x"

IsDigit(c) == c \in 0..9

ConfigCouncils == 65          \* council_codes: "01" .. "65"
ConfigStudentMin == 1         \* student_number_min
ConfigStudentMax == 999999    \* student_number_max
ConfigBatchSize == 1000       \* crawler["batch_size"]

\* RegistrationNumberGenerator.__init__ with the configuration of config.py
RealGenerator ==
    [council_codes |-> [i \in 1..ConfigCouncils |-> CouncilCode(i)],
     student_number_min |-> ConfigStudentMin,
     student_number_max |-> ConfigStudentMax]

\* f"{student_number:06d}": the sign counts in the width
Format06(n) == IF n >= 0 THEN ZeroPad(n, 6) ELSE <<Minus>> \o ZeroPad(0 - n, 5)

generate_single(council_code, n) == council_code \o Format06(n)

RECURSIVE LStrip(_)
LStrip(s) == IF s # <<>> /\ s[1] = Space THEN LStrip(Tail(s)) ELSE s

RECURSIVE RStrip(_)
RStrip(s) ==
    IF s # <<>> /\ s[Len(s)] = Space THEN RStrip(SubSeq(s, 1, Len(s) - 1)) ELSE s

\* int(s) for a str: whitespace around it is dropped, one sign may lead, the
\* rest is digits with single underscores between digits; anything else is a
\* ValueError (ok = FALSE)
PyInt(s) ==
    LET t == RStrip(LStrip(s))
        signed == t # <<>> /\ t[1] \in {Plus, Minus}
        body == IF signed THEN Tail(t) ELSE t
        wellformed ==
            /\ body # <<>>
            /\ \A i \in 1..Len(body) : IsDigit(body[i]) \/ body[i] = Underscore
            /\ IsDigit(body[1]) /\ IsDigit(body[Len(body)])
            /\ \A i \in 1..(Len(body) - 1) :
                  ~(body[i] = Underscore /\ body[i + 1] = Underscore)
        magnitude == ParseInt(SelectSeq(body, IsDigit))
    IN  IF wellformed
        THEN [ok |-> TRUE,
              value |-> IF t[1] = Minus THEN 0 - magnitude ELSE magnitude]
        ELSE [ok |-> FALSE, value |-> 0]

\* s[:k] and s[k:]
Prefix(s, k) == SubSeq(s, 1, Min(k, Len(s)))
Suffix(s, k) == SubSeq(s, Min(k, Len(s)) + 1, Len(s))

WithinBounds_Exclusive(G, n) ==
    ~(n <= G.student_number_min \/ n >= G.student_number_max)

WithinBounds(G, n) == ~(n < G.student_number_min \/ n > G.student_number_max)

is_valid_format(G, rn) ==
    IF rn = <<>> \/ Len(rn) # 8 THEN FALSE
    ELSE IF Prefix(rn, 2) \notin ListToSet(G.council_codes) THEN FALSE
    ELSE LET r == PyInt(Suffix(rn, 2))
         IN  IF ~r.ok THEN FALSE ELSE WithinBounds(G, r.value)

\* parse: raises ValueError unless is_valid_format
parse(G, rn) ==
    IF ~is_valid_format(G, rn)
    THEN [raised |-> TRUE,
          value |-> [council_code |-> <<>>, student_number |-> 0, full |-> <<>>]]
    ELSE [raised |-> FALSE,
          value |-> [council_code |-> Prefix(rn, 2),
                     student_number |-> PyInt(Suffix(rn, 2)).value,
                     full |-> rn]]

generate_for_council(G, council_code) ==
    [k \in 1..(G.student_number_max - G.student_number_min + 1) |->
        generate_single(council_code, G.student_number_min + k - 1)]

RECURSIVE Concat(_)
Concat(seqs) == IF seqs = <<>> THEN <<>> ELSE Head(seqs) \o Concat(Tail(seqs))

generate_all(G) ==
    Concat([k \in 1..Len(G.council_codes) |->
               generate_for_council(G, G.council_codes[k])])

\* generate_batches 73-83: the batches yielded for one council from number i
\* on, `batch` being the identifiers collected and not yet yielded
RECURSIVE CouncilBatches(_, _, _, _, _)
CouncilBatches(G, council_code, size, i, batch) ==
    IF i > G.student_number_max
    THEN IF batch # <<>> THEN <<batch>> ELSE <<>>
    ELSE LET b == Append(batch, generate_single(council_code, i))
         IN  IF Len(b) = size
             THEN <<b>> \o CouncilBatches(G, council_code, size, i + 1, <<>>)
             ELSE CouncilBatches(G, council_code, size, i + 1, b)

\* cut a sequence into pieces of `size`, the last possibly shorter
RECURSIVE Chunks(_, _)
Chunks(s, size) ==
    IF s = <<>> THEN <<>>
    ELSE IF Len(s) <= size THEN <<s>>
    ELSE <<SubSeq(s, 1, size)>> \o Chunks(SubSeq(s, size + 1, Len(s)), size)

generate_batches_Chunked(G, size) == Chunks(generate_all(G), size)

generate_batches_FullOnly(G, size) ==
    SelectSeq(Concat([k \in 1..Len(G.council_codes) |->
                         CouncilBatches(G, G.council_codes[k], size,
                                        G.student_number_min, <<>>)]),
              LAMBDA b : Len(b) = size)

\* generate_batches: council after council, the batch starts empty in each
generate_batches(G, size) ==
    Concat([k \in 1..Len(G.council_codes) |->
               CouncilBatches(G, G.council_codes[k], size,
                              G.student_number_min, <<>>)])

get_total_count(G) ==
    Len(G.council_codes) * (G.student_number_max - G.student_number_min + 1)

\* get_stats: total_batches is computed from the total count and the
\* configured batch size
get_stats(G) ==
    LET total_count == get_total_count(G)
        batch_count == (total_count + ConfigBatchSize - 1) \div ConfigBatchSize
    IN  [total_registration_numbers |-> total_count,
         council_codes |-> Len(G.council_codes),
         student_number_range |->
             [min |-> G.student_number_min, max |-> G.student_number_max,
              count |-> G.student_number_max - G.student_number_min + 1],
         batch_size |-> ConfigBatchSize,
         total_batches |-> batch_count]

-----------------------------------------------------------------------------
(* The generator called with chosen arguments (GenSpec) *)

GenMaxCouncils == 3     \* councils of the scaled-down configurations
GenMaxStudents == 5     \* largest student_number_max of those configurations
MaxBatchSize == 6       \* largest explicit batch_size

\* configurations whose identifier space is small enough to be listed
SmallGenerators ==
    { [council_codes |-> [i \in 1..k |-> CouncilCode(i)],
       student_number_min |-> ConfigStudentMin,
       student_number_max |-> m] :
         k \in 1..GenMaxCouncils, m \in 1..GenMaxStudents }

CodeInputs ==
    {CouncilCode(1), CouncilCode(2), CouncilCode(ConfigCouncils), CouncilCode(0),
     CouncilCode(ConfigCouncils + 1), <<1>>, <<0, Letter>>}

NumberInputs(G) ==
    {0 - 5, 0, G.student_number_min, 5, G.student_number_max,
     G.student_number_max + 1}

SequenceParts(G) ==
    {ZeroPad(0, 6), ZeroPad(G.student_number_min, 6), ZeroPad(G.student_number_max, 6),
     ZeroPad(G.student_number_max + 1, 6), ZeroPad(1, 5), ZeroPad(1, 7), <<>>,
     <<0, 0, 0, 0, 0, Letter>>, <<Plus, 0, 0, 0, 0, 1>>, <<Minus, 0, 0, 0, 0, 1>>,
     <<Space, 0, 0, 0, 0, 1>>, <<0, 0, 0, Underscore, 0, 1>>,
     <<0, 0, 0, 0, Underscore, Underscore>>}

\* strings handed to parse: built part by part, and produced by generate_single
ParseInputs(G) ==
    {c \o t : c \in CodeInputs, t \in SequenceParts(G)}
    \cup {generate_single(c, n) : c \in CodeInputs, n \in NumberInputs(G)}

GRet(op, args, result) == [op |-> op, args |-> args, result |-> result]

NoArgs == [council_code |-> <<>>, student_number |-> 0, text |-> <<>>, size |-> 0]

gen_unchanged ==
    <<skip_manager, mode, generator, api_scraper, backend, pc, council_num,
      student_number, consecutive_failures, council_successful, inflight, attempt,
      stats, results_saver, interrupted, history, exit_code>>

GInit ==
    /\ mode = "generator"
    /\ generator \in SmallGenerators \cup {RealGenerator}
    /\ skip_manager = <<>>
    /\ ret = GRet("none", NoArgs, <<>>)
    /\ api_scraper = <<>>
    /\ backend = "none"
    /\ pc = "generator"
    /\ council_num = 0
    /\ student_number = 0
    /\ consecutive_failures = 0
    /\ council_successful = 0
    /\ inflight = <<>>
    /\ attempt = 0
    /\ stats = <<>>
    /\ results_saver = <<>>
    /\ interrupted = "no"
    /\ history = <<>>
    /\ exit_code = -1

\* generate_single has no raise statement: it returns for every argument
GGenerateSingle(council_code, n) ==
    /\ ret' = GRet("generate_single",
                   [NoArgs EXCEPT !.council_code = council_code, !.student_number = n],
                   [raised |-> FALSE, value |-> generate_single(council_code, n)])
    /\ UNCHANGED gen_unchanged

GParse(rn) ==
    /\ ret' = GRet("parse", [NoArgs EXCEPT !.text = rn], parse(generator, rn))
    /\ UNCHANGED gen_unchanged

GGenerateForCouncil(council_code) ==
    /\ generator \in SmallGenerators
    /\ ret' = GRet("generate_for_council", [NoArgs EXCEPT !.council_code = council_code],
                   generate_for_council(generator, council_code))
    /\ UNCHANGED gen_unchanged

GGenerateAll ==
    /\ generator \in SmallGenerators
    /\ ret' = GRet("generate_all", NoArgs, generate_all(generator))
    /\ UNCHANGED gen_unchanged

GGenerateBatches(size) ==
    /\ generator \in SmallGenerators
    /\ ret' = GRet("generate_batches", [NoArgs EXCEPT !.size = size],
                   generate_batches(generator, size))
    /\ UNCHANGED gen_unchanged

\* batch_size is None: the configured batch size is used
GGenerateBatchesDefault ==
    /\ generator \in SmallGenerators
    /\ ret' = GRet("generate_batches", [NoArgs EXCEPT !.size = ConfigBatchSize],
                   generate_batches(generator, ConfigBatchSize))
    /\ UNCHANGED gen_unchanged

GGetStats ==
    /\ ret' = GRet("get_stats", NoArgs, get_stats(generator))
    /\ UNCHANGED gen_unchanged

GNext ==
    \/ \E c \in CodeInputs : \E n \in NumberInputs(generator) : GGenerateSingle(c, n)
    \/ \E rn \in ParseInputs(generator) : GParse(rn)
    \/ \E c \in ListToSet(generator.council_codes) : GGenerateForCouncil(c)
    \/ GGenerateAll
    \/ \E size \in 1..MaxBatchSize : GGenerateBatches(size)
    \/ GGenerateBatchesDefault
    \/ GGetStats

GenSpec == GInit /\ [][GNext]_vars

-----------------------------------------------------------------------------
(* One crawl_batch_api call with its fetch tasks (FetchSpec):
   src/main_enhanced.py crawl_batch_api and crawl_council_fast 128-138,
   src/src/api_scraper.py fetch_batch.  Each identifier handed to fetch_batch
   is a task: "pending" until it holds the semaphore, "fetching" while it is
   inside fetch_student_data, "done" after it released the semaphore. *)

concurrent_requests == 15     \* ApiConfig(concurrent_requests=15)

MaxFetch == 16                \* largest batch handed to fetch_batch

\* the batch of n identifiers at the resume point of the batched orchestrator
FetchBatchOf(n) ==
    [i \in 1..n |-> RegistrationNumber(CouncilCode(start_council),
                                       start_student_number + i - 1)]

\* records exist for the identifiers of the batch, except the 5th to 7th;
\* the request for the 2nd fails on every attempt, the request for the 4th
\* fails once, and the answer for the 3rd is never JSON
FetchBackend ==
    [Scenario({start_council}, start_student_number, start_student_number + MaxFetch,
              start_student_number + 4, start_student_number + 6,
              {start_student_number + 3}, {start_student_number + 1})
        EXCEPT !.malformed = {start_student_number + 2}]

\* batch size, invalid-list file found at start (missing, or covering the
\* first identifier) and backend (FetchBackend, or one without any record)
FetchCases ==
    {[n |-> n, p |-> MissingFile, b |-> FetchBackend] : n \in {1, 2, concurrent_requests, MaxFetch}}
    \cup {[n |-> n, p |-> JsonFile(FetchBatchOf(1)), b |-> FetchBackend] : n \in {1, 2}}
    \cup {[n |-> n, p |-> MissingFile, b |-> Scenario({}, 1, 0, 1, 0, {}, {})] : n \in {1, 2}}

NoTasks == [semaphore |-> 0, tasks |-> <<>>, results |-> <<>>, total_requests |-> 0]

FInit ==
    /\ mode = "fetch"
    /\ \E c \in FetchCases :
          /\ inflight = FetchBatchOf(c.n)
          /\ skip_manager = NewSkipManager(MissingFile, MissingFile, c.p)
          /\ backend = c.b
          /\ student_number = start_student_number + c.n  \* the cursor is past the batch
    /\ ret = NoRet
    /\ generator = <<>>
    /\ api_scraper = NoTasks
    /\ pc = "call"
    /\ council_num = start_council
    /\ consecutive_failures = 0
    /\ council_successful = 0
    /\ attempt = 0
    /\ stats = [total_processed |-> 0, total_successful |-> 0, total_failed |-> 0,
                total_skipped |-> 0, last_save_count |-> 0]
    /\ results_saver = NewResultsSaver
    /\ interrupted = "no"
    /\ history = <<>>
    /\ exit_code = -1

fetch_unchanged ==
    <<ret, mode, generator, backend, council_num, student_number, attempt,
      interrupted, history, exit_code>>

Fetching(tasks) == {i \in 1..Len(tasks) : tasks[i] = "fetching"}

\* crawl_batch_api 67-74: nothing is left after the filter, [] is returned
FAllSkipped ==
    /\ mode = "fetch" /\ pc = "call"
    /\ valid_numbers(skip_manager, inflight) = <<>>
    /\ inflight' = <<>>
    /\ api_scraper' = NoTasks
    /\ pc' = "book"
    /\ UNCHANGED <<skip_manager, results_saver, stats, consecutive_failures,
                   council_successful, fetch_unchanged>>

\* crawl_batch_api 67-77 and fetch_batch 310-331: the unskipped identifiers
\* become tasks, Semaphore(concurrent_requests) is created, gather is awaited
FDispatch ==
    /\ mode = "fetch" /\ pc = "call"
    /\ LET valid == valid_numbers(skip_manager, inflight)
       IN  /\ valid # <<>>
           /\ inflight' = valid
           /\ api_scraper' = [semaphore |-> concurrent_requests,
                              tasks |-> [i \in 1..Len(valid) |-> "pending"],
                              results |-> [i \in 1..Len(valid) |-> <<>>],
                              total_requests |-> 0]
    /\ pc' = "gather"
    /\ UNCHANGED <<skip_manager, results_saver, stats, consecutive_failures,
                   council_successful, fetch_unchanged>>

SemaphoreFree_Unbounded(value) == TRUE

\* Semaphore.acquire does not wait
SemaphoreFree(value) == value > 0

\* `async with semaphore:` is entered; waiters are served in task order
FAcquire(i) ==
    /\ mode = "fetch"
    /\ i \in 1..Len(api_scraper.tasks)
    /\ api_scraper.tasks[i] = "pending"
    /\ \A j \in 1..(i - 1) : api_scraper.tasks[j] # "pending"
    /\ SemaphoreFree(api_scraper.semaphore)
    /\ api_scraper' = [api_scraper EXCEPT !.tasks[i] = "fetching",
                                          !.semaphore = @ - 1]
    /\ UNCHANGED <<skip_manager, results_saver, stats, consecutive_failures,
                   council_successful, inflight, pc, fetch_unchanged>>

\* fetch_student_data returned (a record or None); the semaphore is released
FComplete(i) ==
    /\ mode = "fetch"
    /\ i \in 1..Len(api_scraper.tasks)
    /\ api_scraper.tasks[i] = "fetching"
    /\ api_scraper' =
          [api_scraper EXCEPT
              !.tasks[i] = "done",
              !.semaphore = @ + 1,
              !.results[i] = fetch_student_data(backend, inflight[i], 0).value,
              !.total_requests = @ + fetch_student_data(backend, inflight[i], 0).requests]
    /\ UNCHANGED <<skip_manager, results_saver, stats, consecutive_failures,
                   council_successful, inflight, pc, fetch_unchanged>>

GatherDone_FirstCompleted(tasks) == \E i \in 1..Len(tasks) : tasks[i] = "done"

\* asyncio.gather(..., return_exceptions=True) returns when every task is done
GatherDone(tasks) == \A i \in 1..Len(tasks) : tasks[i] = "done"

\* fetch_batch 333-342: the results that are not None, in task order
valid_results(A) == SelectSeq(A.results, LAMBDA r : r # <<>>)

\* gather returned; fetch_batch returns the valid results and crawl_batch_api
\* 80-88 records every dispatched identifier in the ledger
FGatherReturn ==
    /\ mode = "fetch" /\ pc = "gather"
    /\ GatherDone(api_scraper.tasks)
    /\ skip_manager' = RecordBatch(skip_manager, inflight,
                                   ListToSet(valid_results(api_scraper)))
    /\ pc' = "book"
    /\ UNCHANGED <<results_saver, stats, consecutive_failures, council_successful,
                   inflight, api_scraper, fetch_unchanged>>

\* crawl_council_fast 130-149: the results go to the sink, the counters move
FBook ==
    /\ mode = "fetch" /\ pc = "book"
    /\ LET results == valid_results(api_scraper)
           n == student_number - start_student_number     \* len(batch)
       IN  /\ results_saver' = AddResults(results_saver, results)
           /\ consecutive_failures' = BatchFailures(consecutive_failures, results, n)
           /\ council_successful' = council_successful + Len(results)
           /\ stats' = [stats EXCEPT
                 !.total_successful = @ + Len(results),
                 !.total_failed = IF results # <<>> THEN @ ELSE @ + n,
                 !.total_processed = @ + n]
    /\ pc' = "done"
    /\ UNCHANGED <<skip_manager, inflight, api_scraper, fetch_unchanged>>

FNext ==
    \/ FAllSkipped
    \/ FDispatch
    \/ \E i \in 1..MaxFetch : FAcquire(i)
    \/ \E i \in 1..MaxFetch : FComplete(i)
    \/ FGatherReturn
    \/ FBook

FetchSpec == FInit /\ [][FNext]_vars

-----------------------------------------------------------------------------
(* The batched orchestrator near the end of a region that has records up to
   its last sequence numbers (LongSpec).  The run is the one of
   main_enhanced.py against a service with a record for every identifier of
   region 48 up to LongHi, started with a data/skip_ranges.json that skips, in
   every block of BatchStopThreshold identifiers from the resume point on, all
   but the first.  Each block then takes ten batches: the first finds the one
   record, the other nine are skipped entirely.  The specification starts in
   the state this run is in at the loop head after J such blocks. *)

LongHi == 1000000    \* last sequence number with data in region 48

\* number of whole blocks between the resume point and the largest valid
\* sequence number
LongBlocks == (ConfigStudentMax - start_student_number) \div BatchStopThreshold

\* data/skip_ranges.json: one range per block, up to the largest valid
\* sequence number
LongRanges ==
    [j \in 1..(LongBlocks + 1) |->
        SkipRange(start_student_number + BatchStopThreshold * (j - 1) + 1,
                  Min(start_student_number + BatchStopThreshold * j - 1, ConfigStudentMax),
                  "consecutive_failures")]

\* the identifier found in block j
LongFound(j) ==
    RegistrationNumber(CouncilCode(start_council),
                       start_student_number + BatchStopThreshold * (j - 1))

LongInit ==
    \E J \in {LongBlocks - 1, LongBlocks} :
        /\ mode = "batched"
        /\ backend = Scenario({start_council}, start_student_number, LongHi, 1, 0, {}, {})
        /\ skip_manager =
              [Constructed([NewSkipManager(MissingFile, MissingFile, MissingFile)
                               EXCEPT !.skip_ranges_file =
                                   JsonFile(Put(<<>>, CouncilCode(start_council),
                                                LongRanges))])
                  EXCEPT !.last_valid_number =
                             Put(<<>>, CouncilCode(start_council), StudentOf(LongFound(J))),
                         !.consecutive_failures =
                             [k \in {<<CodeOf(LongFound(j)), StudentOf(LongFound(j))>> :
                                        j \in 1..J} |-> 0]]
        /\ ret = NoRet
        /\ generator = <<>>
        /\ api_scraper = Started(1)
        /\ pc = "loop"
        /\ council_num = start_council
        /\ student_number = start_student_number + BatchStopThreshold * J
        /\ consecutive_failures = BatchStopThreshold - batch_size
        /\ council_successful = J
        /\ inflight = <<>>
        /\ attempt = 0
        /\ stats = [total_processed |-> BatchStopThreshold * J, total_successful |-> J,
                    total_failed |-> (BatchStopThreshold - batch_size) * J,
                    total_skipped |-> 0, last_save_count |-> 0]
        /\ results_saver = [NewResultsSaver EXCEPT
                               !.results = [j \in 1..J |-> LongFound(j)],
                               !.stats = [total_processed |-> J, successful |-> J,
                                          failed |-> 0]]
        /\ interrupted = "no"
        /\ history = [flushes |-> 0, ledger_saves |-> 0, report |-> NoReport,
                      int_flushes |-> 0, int_ledger_saves |-> 0, int_results |-> <<>>,
                      last |-> "skipped", failed_probes |-> 0]
        /\ exit_code = -1

LongNext ==
    \/ BatchAllSkipped
    \/ BatchDispatch
    \/ BatchReturn
    \/ BatchCouncilDone
    \/ \E k \in InterruptKinds : BatchInterrupt(k)
    \/ BatchFinalSave
    \/ BatchReport

LongSpec == LongInit /\ [][LongNext]_vars

-----------------------------------------------------------------------------
(* Properties of the orchestrators *)

\* C1: in single-probe mode a skipped identifier only advances the cursor; it
\* changes neither the consecutive-failure count nor the failed / successful
\* totals.
C1_SkipOnlyAdvances ==
    [][SingleSkipped =>
          /\ student_number' = student_number + 1
          /\ consecutive_failures' = consecutive_failures
          /\ stats'.total_failed = stats.total_failed
          /\ stats'.total_successful = stats.total_successful]_vars

\* C2: in single-probe mode the region is Stopped exactly when 10 probes in a
\* row have failed since the last success or region entry, and a success sets
\* the consecutive-failure count to 0.
C2_StopAfterTenFailedProbes ==
    /\ [](mode = "single" /\ pc = "loop"
             => (~SingleContinue(consecutive_failures)
                    <=> history.failed_probes = 10))
    /\ [][SingleFound => consecutive_failures' = 0]_vars

\* C3: in batched mode a batch without successes adds the batch size (100) to
\* the consecutive-failure count, a batch with a success resets it to 0, and
\* the region stops only once the count has reached 1000.
C3_BatchCounting ==
    [][/\ (BatchReturn \/ BatchAllSkipped) =>
             consecutive_failures' =
                 IF stats'.total_successful > stats.total_successful
                 THEN 0
                 ELSE consecutive_failures + 100
       /\ BatchCouncilDone => consecutive_failures >= 1000
       /\ (mode = "batched" /\ pc = "loop" /\ consecutive_failures < 1000)
             => (pc' \in {"loop", "fetch"} /\ council_num' = council_num)]_vars

C3_Witness ==
    /\ mode = "batched" /\ pc = "loop"
    /\ consecutive_failures = 400
    /\ history.last = "absent"
    /\ stats.total_successful > 0

\* C4: each time a region reaches Stopped, the result sink is flushed and the
\* ledger is saved before the next region starts.
C4_CheckpointSavesLedger ==
    [][(SingleCouncilDone \/ BatchCouncilDone) =>
          /\ history'.flushes > history.flushes
          /\ history'.ledger_saves > history.ledger_saves]_vars

\* successes held by the sink and not yet written by a flush
Unflushed == Len(results_saver.results) - Len(LoadDict(results_saver.json_file))

\* C5: at the end of every single-probe step fewer than 100, and at the end of
\* every batch step fewer than 10000, successes are unflushed; none is
\* unflushed right after a region ends.
C5_UnflushedBounded ==
    /\ mode = "single" /\ pc = "loop" => Unflushed < 100
    /\ mode = "batched" /\ pc = "loop" => Unflushed < 10000
    /\ mode \in Modes /\ history.last = "council_done" => Unflushed = 0

C5_Witness ==
    /\ mode = "batched" /\ pc = "loop"
    /\ history.last = "found"
    /\ stats.total_successful >= 10000
    /\ stats.last_save_count = stats.total_successful
    /\ Unflushed = 0
    /\ consecutive_failures = 0

IsPrefix(a, b) == Len(a) <= Len(b) /\ SubSeq(b, 1, Len(a)) = a

\* C6: a run that was interrupted ends only after a sink flush and a ledger
\* save made after the interrupt, and the flushed results contain every
\* success recorded before the interrupt.
C6_InterruptFlushesBoth ==
    (mode \in Modes /\ pc = "done" /\ interrupted # "no") =>
        /\ history.flushes > history.int_flushes
        /\ history.ledger_saves > history.int_ledger_saves
        /\ IsPrefix(history.int_results, LoadDict(results_saver.json_file))

\* C7: on normal completion the final sink flush and the final ledger save
\* precede the aggregate report, whose success rate is
\* successful / max(1, processed).
C7_FinalSavesThenReport ==
    (/\ mode \in Modes /\ history.report.made /\ interrupted = "no"
     /\ council_num = LastCouncil(mode))
    => /\ history.report.flushes > 0
       /\ history.report.ledger_saves > 0
       /\ history.report.has_rate
       /\ history.report.rate_num = history.report.successful
       /\ history.report.rate_den = Max(1, history.report.processed)

-----------------------------------------------------------------------------
(* Properties of the ledger *)

QuerySeqs == {4, 5, 200, 201, 500, 501, 5 + SkipSpan, 6 + SkipSpan}

SkipExpected(L, c, n) ==
    LET code == CouncilCode(c)
    IN  \/ code \in DOMAIN L.council_limits /\ n > L.council_limits[code]
        \/ /\ code \in DOMAIN L.skip_ranges
           /\ \E r \in ListToSet(L.skip_ranges[code]) : r.start <= n /\ n <= r.end
        \/ RegistrationNumber(code, n) \in L.invalid_patterns

\* C8: should_skip is true exactly for an identifier strictly above its
\* region's limit, inside a closed skip range of its region, or in the
\* invalid set, and a should_skip call leaves the ledger unchanged.
C8_ShouldSkipExact ==
    /\ [](\A c \in {1, 2} : \A n \in QuerySeqs :
             should_skip(skip_manager, RegistrationNumber(CouncilCode(c), n))
                 <=> SkipExpected(skip_manager, c, n))
    /\ [][ret'.op = "should_skip" => skip_manager' = skip_manager]_vars

C8_Witness ==
    /\ ret.op = "should_skip" /\ ret.value
    /\ HotCouncil \in DOMAIN skip_manager.skip_ranges
    /\ HotCouncil \in DOMAIN skip_manager.council_limits
    /\ ~should_skip(skip_manager, RegistrationNumber(HotCouncil, 4))
    /\ should_skip(skip_manager, RegistrationNumber(HotCouncil, 5 + SkipSpan))

\* C9: a region's recorded limit never increases; set_council_limit with a
\* smaller value replaces the limit and writes the limits file, with a value
\* greater than or equal to the current limit it changes nothing.
C9_LimitMonotone ==
    [][/\ \A code \in DOMAIN skip_manager.council_limits :
             /\ code \in DOMAIN skip_manager'.council_limits
             /\ skip_manager'.council_limits[code] <= skip_manager.council_limits[code]
       /\ \A v \in LimitValues :
             LSetCouncilLimit(HotCouncil, v) =>
                 IF /\ HotCouncil \in DOMAIN skip_manager.council_limits
                    /\ v >= skip_manager.council_limits[HotCouncil]
                 THEN skip_manager' = skip_manager
                 ELSE /\ skip_manager'.council_limits[HotCouncil] = v
                      /\ skip_manager'.council_limits_file
                             = JsonFile(skip_manager'.council_limits)]_vars

C9_Witness ==
    /\ HotCouncil \in DOMAIN skip_manager.council_limits
    /\ skip_manager.council_limits[HotCouncil] = 200
    /\ skip_manager.council_limits_file.exists
    /\ skip_manager.council_limits_file.data[HotCouncil] = 200

PromotedRange(L, rn) ==
    LET code == CodeOf(rn)
        n == StudentOf(rn)
    IN  {r \in ListToSet(Get(L, code, <<>>)) :
            /\ r.reason = "consecutive_failures"
            /\ \A k \in {1, SkipSpan} : r.start <= n + k /\ n + k <= r.end}

\* C10: once record_failure has been called 100 times in a row for one key,
\* a consecutive_failures skip range covering the next 1000 sequence numbers
\* is in the in-memory ledger, counted by get_skip_stats and in the
\* skip-range file; such a range appears only on a call that brings the
\* key's counter to the threshold.
C10_Promotion ==
    /\ [](\A rn \in LFailIds :
             Get(skip_manager.consecutive_failures,
                 <<CodeOf(rn), StudentOf(rn)>>, 0) >= 100
             => /\ PromotedRange(skip_manager.skip_ranges, rn) # {}
                /\ PromotedRange(LoadDict(skip_manager.skip_ranges_file), rn) # {}
                /\ get_skip_stats(skip_manager).total_skip_ranges >= 1)
    /\ [][\A rn \in LFailIds :
             (/\ PromotedRange(skip_manager.skip_ranges, rn) = {}
              /\ PromotedRange(skip_manager'.skip_ranges, rn) # {})
             => Get(skip_manager'.consecutive_failures,
                    <<CodeOf(rn), StudentOf(rn)>>, 0) >= 100]_vars

C10_Witness ==
    /\ Get(skip_manager.consecutive_failures, <<HotCouncil, 5>>, 0) = 100
    /\ Len(Get(skip_manager.skip_ranges, HotCouncil, <<>>)) = 1
    /\ PromotedRange(LoadDict(skip_manager.skip_ranges_file), HotId) # {}

-----------------------------------------------------------------------------
(* Properties of the ledger's persistence *)

\* C11: when the write of the skip-range file fails in the promotion path of
\* record_failure, record_failure returns normally (it raises nothing to its
\* caller) and the ledger in memory holds the new skip range.
C11_PromotionWriteFailureSwallowed ==
    (mode = "persist" /\ ret.op = "record_failure" /\ ret.promoted /\ ret.io # "ok")
    => /\ ~ret.raised
       /\ PromotedRange(skip_manager.skip_ranges, HotId) # {}

Usable(f) == f.exists /\ f.fault = "none"

\* C12: constructing the ledger never raises; each of the three structures is
\* the content of its own file when that file is present and readable JSON,
\* and empty when it is missing, corrupt or unreadable, whatever the state of
\* the other two files.
C12_ConstructionNeverFails ==
    (mode = "persist" /\ ret.op = "construct") =>
        /\ ~ret.raised
        /\ skip_manager.skip_ranges =
               IF Usable(skip_manager.skip_ranges_file)
               THEN skip_manager.skip_ranges_file.data ELSE <<>>
        /\ skip_manager.council_limits =
               IF Usable(skip_manager.council_limits_file)
               THEN skip_manager.council_limits_file.data ELSE <<>>
        /\ skip_manager.invalid_patterns =
               IF Usable(skip_manager.invalid_patterns_file)
               THEN ListToSet(skip_manager.invalid_patterns_file.data) ELSE {}

C12_Witness ==
    /\ mode = "persist" /\ ret.op = "construct" /\ ret.prev = "record_failure"
    /\ skip_manager.skip_ranges_file.fault = "corrupt"
    /\ skip_manager.invalid_patterns_file.fault = "unreadable"
    /\ skip_manager.skip_ranges = <<>>
    /\ skip_manager.invalid_patterns = {}
    /\ skip_manager.council_limits # <<>>

\* C13: a construction that follows a save_all which returned loads region
\* limits, skip ranges (per region, in order, with start, end and reason) and
\* the invalid set equal to those in memory at the save, so every identifier
\* that should_skip covered at the save is still covered.
C13_SaveAllRoundTrip ==
    [][(mode = "persist" /\ ret.op = "save_all" /\ ~ret.raised /\ PRestart) =>
          /\ skip_manager'.council_limits = skip_manager.council_limits
          /\ skip_manager'.skip_ranges = skip_manager.skip_ranges
          /\ skip_manager'.invalid_patterns = skip_manager.invalid_patterns
          /\ \A rn \in LQueryIds :
                should_skip(skip_manager, rn) => should_skip(skip_manager', rn)]_vars

C13_Witness ==
    /\ mode = "persist" /\ ret.op = "construct" /\ ret.prev = "save_all"
    /\ PromotedRange(skip_manager.skip_ranges, HotId) # {}
    /\ HotCouncil \in DOMAIN skip_manager.council_limits
    /\ HotId \in skip_manager.invalid_patterns
    /\ skip_manager.consecutive_failures = <<>>
    /\ should_skip(skip_manager, RegistrationNumber(HotCouncil, 6 + SkipSpan))

-----------------------------------------------------------------------------
(* Properties of the identifier generator *)

\* region and sequence pairs inside the configuration whose identifier is
\* among the strings handed to parse
ValidPairs(G) ==
    {p \in CodeInputs \X NumberInputs(G) :
        /\ p[1] \in ListToSet(G.council_codes)
        /\ G.student_number_min <= p[2] /\ p[2] <= G.student_number_max}

\* C14: for every configured region and every sequence within the configured
\* bounds, parse applied to generate_single(region, sequence) returns that
\* region and that sequence.
C14_ParseInvertsSingle ==
    (mode = "generator" /\ ret.op = "parse") =>
        \A p \in ValidPairs(generator) :
            ret.args.text = generate_single(p[1], p[2]) =>
                /\ ~ret.result.raised
                /\ ret.result.value.council_code = p[1]
                /\ ret.result.value.student_number = p[2]

C14_Witness ==
    /\ mode = "generator" /\ ret.op = "parse"
    /\ generator = RealGenerator
    /\ ret.args.text = generate_single(CouncilCode(ConfigCouncils), ConfigStudentMax)
    /\ ~ret.result.raised
    /\ ret.result.value.student_number = ConfigStudentMax

\* an identifier is a 2-character configured region code followed by six
\* decimal digits whose value is within the configured bounds
Malformed(G, rn) ==
    \/ Len(rn) # 8
    \/ Prefix(rn, 2) \notin ListToSet(G.council_codes)
    \/ \E i \in 3..Len(rn) : ~IsDigit(rn[i])
    \/ ParseInt(Suffix(rn, 2)) < G.student_number_min
    \/ ParseInt(Suffix(rn, 2)) > G.student_number_max

\* C15: parse raises for every string whose length is not 8, whose region
\* code is not configured, or whose sequence part is not a number within the
\* configured bounds (000000 included); it returns for no such string.
C15_ParseRejectsMalformed ==
    (mode = "generator" /\ ret.op = "parse" /\ Malformed(generator, ret.args.text))
    => ret.result.raised

\* C16: generate_single raises, and returns nothing, when the region is not
\* configured or the sequence is outside the configured bounds; what it
\* returns is 8 characters long.
C16_SingleRejectsInvalid ==
    (mode = "generator" /\ ret.op = "generate_single") =>
        /\ (\/ ret.args.council_code \notin ListToSet(generator.council_codes)
            \/ ret.args.student_number < generator.student_number_min
            \/ ret.args.student_number > generator.student_number_max)
           => ret.result.raised
        /\ ~ret.result.raised => Len(ret.result.value) = 8

\* the batches that hold identifiers of region c, in output order
RegionBatches(batches, c) == SelectSeq(batches, LAMBDA b : Prefix(b[1], 2) = c)

\* C17: for every batch size >= 1 and every region, the batches of that
\* region, concatenated in order, are exactly generate_for_council(region),
\* and each of them except possibly the region's last has `size` identifiers.
C17_RegionBatchesCoverRegion ==
    (mode = "generator" /\ ret.op = "generate_batches") =>
        \A k \in 1..Len(generator.council_codes) :
            LET c == generator.council_codes[k]
                bs == RegionBatches(ret.result, c)
            IN  /\ Concat(bs) = generate_for_council(generator, c)
                /\ \A i \in 1..(Len(bs) - 1) : Len(bs[i]) = ret.args.size

C17_Witness ==
    /\ mode = "generator" /\ ret.op = "generate_batches"
    /\ ret.args.size = 2
    /\ Len(generator.council_codes) = 3
    /\ generator.student_number_max = 5
    /\ Len(ret.result) = 9
    /\ Len(ret.result[3]) = 1

\* C18: over the whole output of generate_batches only the very last batch
\* may be shorter than `size`; the batches are the full region-major
\* enumeration cut into pieces of `size`.
C18_OnlyLastBatchShort ==
    (mode = "generator" /\ ret.op = "generate_batches") =>
        /\ Concat(ret.result) = generate_all(generator)
        /\ \A i \in 1..(Len(ret.result) - 1) : Len(ret.result[i]) = ret.args.size

\* C18 as amended: the batches, concatenated, are the full region-major
\* enumeration; no batch holds identifiers of two regions or more than
\* `size` identifiers; a batch is shorter than `size` only if it is the last
\* batch of its region.
C18_OnlyRegionLastBatchShort ==
    (mode = "generator" /\ ret.op = "generate_batches") =>
        /\ Concat(ret.result) = generate_all(generator)
        /\ \A i \in 1..Len(ret.result) :
              /\ ret.result[i] # <<>>
              /\ Len(ret.result[i]) <= ret.args.size
              /\ \A j \in 1..Len(ret.result[i]) :
                    Prefix(ret.result[i][j], 2) = Prefix(ret.result[i][1], 2)
        /\ \A i \in 1..(Len(ret.result) - 1) :
              Len(ret.result[i]) < ret.args.size
                  => Prefix(ret.result[i + 1][1], 2) # Prefix(ret.result[i][1], 2)

C18_Witness ==
    /\ mode = "generator" /\ ret.op = "generate_batches"
    /\ Len(generator.council_codes) >= 2
    /\ \E i \in 1..(Len(ret.result) - 1) :
          /\ Len(ret.result[i]) < ret.args.size
          /\ Len(ret.result[i + 1]) = ret.args.size

-----------------------------------------------------------------------------
(* Properties of a batch fetch *)

\* C19: at every moment of fetch_batch at most 15 probes are in flight (hold
\* the semaphore and are inside a fetch), whatever the size of the batch.
C19_InFlightAtMostCap ==
    mode = "fetch" =>
        /\ Cardinality(Fetching(api_scraper.tasks)) <= 15
        /\ api_scraper.tasks # <<>> =>
              api_scraper.semaphore + Cardinality(Fetching(api_scraper.tasks)) = 15

C19_Witness ==
    /\ mode = "fetch" /\ pc = "gather"
    /\ Len(api_scraper.tasks) > 15
    /\ Cardinality(Fetching(api_scraper.tasks)) = 15
    /\ api_scraper.tasks[Len(api_scraper.tasks)] = "pending"
    /\ api_scraper.semaphore = 0

\* C20: the ledger (record_success, record_failure) and the result sink
\* (add_result) change only in steps taken while no fetch of the batch is in
\* flight, after every task of the batch is done.
C20_MutationsAfterJoin ==
    [][(mode = "fetch" /\ (skip_manager' # skip_manager
                           \/ results_saver' # results_saver))
       => /\ Fetching(api_scraper.tasks) = {}
          /\ \A i \in 1..Len(api_scraper.tasks) : api_scraper.tasks[i] = "done"]_vars

C20_Witness ==
    /\ mode = "fetch" /\ pc = "done"
    /\ Len(api_scraper.tasks) > 15
    /\ Len(results_saver.results) = Len(api_scraper.tasks) - 5
    /\ Cardinality(skip_manager.invalid_patterns) = 5
    /\ Cardinality(DOMAIN skip_manager.last_valid_number) = 1

-----------------------------------------------------------------------------
(* Properties of interruption, errors and the run's exit paths *)

\* C21: an external interrupt is acted on only between regions and, in batched
\* mode, between batches: at the step that acts on it no probe or batch is in
\* flight, so a dispatched batch is always reconciled.
C21_InterruptOnlyBetweenBatches ==
    [][(mode \in Modes /\ interrupted' # interrupted) => inflight = <<>>]_vars

\* C22: a fetch that meets a transient error (network, timeout) is attempted
\* up to the fixed attempt count and then counted as one failure; a fetch that
\* meets a permanent error (a malformed response) is counted as one failure
\* after a single attempt.
C22_PermanentErrorNotRetried ==
    [][\A i \in 1..Len(inflight) :
          (/\ mode = "fetch" /\ pc = "gather"
           /\ api_scraper.tasks[i] = "fetching" /\ api_scraper'.tasks[i] = "done")
          => LET first == Response(backend, inflight[i], 0)
                 sent == api_scraper'.total_requests - api_scraper.total_requests
             IN  /\ first = "malformed" => sent = 1 /\ api_scraper'.results[i] = <<>>
                 /\ first = "network" => sent <= api_max_retries
                 /\ first \in {"record", "absent"} => sent = 1]_vars

\* the probe of rn that is being answered ends without a record
ProbeFails(rn) ==
    IF mode = "single" THEN Answer(backend, rn, attempt) # "found"
    ELSE ~Fetched(backend, rn)

\* C23: no error raised while probing an identifier (backend error, retry
\* exhaustion, a batch without any answer) leaves the step that produced it:
\* the step ends in the region loop of the same region, the run has not
\* exited, every identifier probed without a record has one more recorded
\* failure in the ledger, and the step is counted as processed.
C23_ProbeErrorsAbsorbed ==
    [][(mode \in Modes /\ pc = "fetch" /\ pc' # "fetch" /\ interrupted' = interrupted)
       => /\ pc' = "loop" /\ exit_code' = -1 /\ council_num' = council_num
          /\ stats'.total_processed > stats.total_processed
          /\ \A i \in 1..Len(inflight) :
                ProbeFails(inflight[i]) =>
                   LET key == <<CodeOf(inflight[i]), StudentOf(inflight[i])>>
                   IN  /\ inflight[i] \in skip_manager'.invalid_patterns
                       /\ Get(skip_manager'.consecutive_failures, key, 0)
                             = Get(skip_manager.consecutive_failures, key, 0) + 1]_vars

\* retry exhaustion in single-probe mode, and a backend error inside a batch
\* that also has records: both steps ended in the region loop
C23_Witness ==
    /\ pc = "loop" /\ exit_code = -1
    /\ \/ /\ mode = "single" /\ history.last = "error"
          /\ RegistrationNumber(CouncilCode(council_num), student_number - 1)
                \in skip_manager.invalid_patterns
       \/ /\ mode = "batched" /\ history.last = "found"
          /\ \E n \in backend.raise_always :
                RegistrationNumber(CouncilCode(council_num), n)
                   \in skip_manager.invalid_patterns

\* C24: when the backend cannot be started the run ends before any region is
\* entered and with nothing dispatched, after cleanup and a final save of the
\* results, with exit code 1; a run that completes normally exits with code 0.
C24_StartFailureExitsOne ==
    (mode \in Modes /\ pc = "done") =>
        IF council_num = 0
        THEN /\ exit_code = 1
             /\ stats.total_processed = 0
             /\ api_scraper.pool = 0
             /\ history.flushes > 0
        ELSE interrupted = "no" => exit_code = 0

\* C25: on every exit path of a run (normal completion, interruption, failed
\* start) no backend resource that was started is left unclosed.
C25_BackendClosedOnExit ==
    (mode \in Modes /\ pc = "done") => api_scraper.unclosed = 0

\* C26: every run, also one ended by an early interruption, ends with the
\* aggregate report (processed, successful, failed, success rate) made, and
\* the report's numbers are the totals accumulated when the run ended.
C26_ReportOnEveryRun ==
    (mode \in Modes /\ pc = "done") =>
        /\ history.report.made
        /\ history.report.has_rate
        /\ history.report.processed = stats.total_processed
        /\ history.report.successful = stats.total_successful
        /\ history.report.failed = stats.total_failed

\* C27: regions are processed in ascending order of their code, each at most
\* once; only the first region may start at the resume sequence, every later
\* region starts at sequence 1 with consecutive-failure count 0 and
\* region-success count 0; only identifiers of the current region are
\* dispatched, so a region that has stopped is never probed again.
C27_RegionsAscendingOnce ==
    [][(mode \in Modes) =>
          /\ council_num' >= council_num
          /\ council_num' # council_num =>
                /\ council_num' = IF council_num = 0 THEN FirstCouncil(mode)
                                  ELSE council_num + 1
                /\ consecutive_failures' = 0
                /\ council_successful' = 0
                /\ council_num # 0 => student_number' = 1
                /\ council_num = 0 => student_number' \in {1, start_student_number}
          /\ \A i \in 1..Len(inflight') :
                council_num' = ParseInt(CodeOf(inflight'[i]))]_vars

\* a later region is being probed from its first sequence number on
C27_Witness ==
    /\ mode \in Modes /\ pc = "fetch"
    /\ council_num = FirstCouncil(mode) + 1
    /\ inflight[1] = RegistrationNumber(CouncilCode(council_num), 1)
    /\ stats.total_successful > 0

\* well-formed identifier: 8 characters, region 01..65, sequence 1..999999
WellFormed(rn) ==
    /\ Len(rn) = 8
    /\ ParseInt(Prefix(rn, 2)) \in 1..ConfigCouncils
    /\ ParseInt(Suffix(rn, 2)) \in ConfigStudentMin..ConfigStudentMax

\* C28: every identifier the orchestrator builds, checks against the ledger
\* or dispatches is an 8-character token with a region of the configured set
\* and a sequence number within the configured bounds (at most 999999).
C28_IdentifiersWellFormed ==
    mode \in Modes =>
        /\ \A i \in 1..Len(inflight) : WellFormed(inflight[i])
        /\ (mode = "single" /\ pc = "loop" /\ SingleContinue(consecutive_failures))
              => WellFormed(CurrentNumber)
        /\ (mode = "batched" /\ pc = "loop" /\ BatchContinue(consecutive_failures))
              => \A i \in 1..batch_size :
                    WellFormed(BuildBatch(council_num, student_number)[i])

\* C29: the ledger is consulted before every dispatch: while identifiers are
\* with the backend, on the first attempt and on every retry, should_skip is
\* false for each of them.
C29_NoSkippedIdentifierSent ==
    (mode \in Modes /\ pc = "fetch") =>
        \A i \in 1..Len(inflight) : ~should_skip(skip_manager, inflight[i])

\* a retry of an identifier in single-probe mode, or a batch from which the
\* ledger has removed some identifiers, with a ledger that skips something
C29_Witness ==
    /\ pc = "fetch"
    /\ \/ /\ mode = "single" /\ attempt > 0
          /\ skip_manager.invalid_patterns # {}
       \/ /\ mode = "batched" /\ Len(inflight) < batch_size

\* the last answer of the backend for an identifier of the step in progress
\* says that there is no such record
ConfirmedAbsent(rn) ==
    IF mode = "single"
    THEN Answer(backend, rn, attempt) = "absent"
    ELSE Response(backend, rn, fetch_student_data(backend, rn, 0).requests - 1) = "absent"

\* C30: a probing step adds to the invalid set only identifiers the backend
\* confirmed absent, not those whose probe ended in an error or in retry
\* exhaustion, and no step removes a member of the set.
C30_InvalidOnlyConfirmedAbsent ==
    [][(mode \in Modes) =>
          /\ skip_manager.invalid_patterns \subseteq skip_manager'.invalid_patterns
          /\ pc = "fetch" =>
                \A rn \in skip_manager'.invalid_patterns \ skip_manager.invalid_patterns :
                    ConfirmedAbsent(rn)]_vars

-----------------------------------------------------------------------------
(* Properties of the ledger's counters and of the totals of a run *)

\* C31: record_success sets the failure counter of the identifier's key to 0
\* and the region's last valid number to the larger of its old value and the
\* identifier's sequence number, and leaves the limits, the skip ranges, the
\* invalid set and the files as they were; over any sequence of calls of the
\* public methods the last valid number of a region never decreases.
C31_RecordSuccessEffect ==
    [][(mode = "ledger") =>
          /\ \A c \in DOMAIN skip_manager.last_valid_number :
                /\ c \in DOMAIN skip_manager'.last_valid_number
                /\ skip_manager'.last_valid_number[c] >= skip_manager.last_valid_number[c]
          /\ \A rn \in LFailIds :
                LRecordSuccess(rn) =>
                    /\ skip_manager'.consecutive_failures[<<CodeOf(rn), StudentOf(rn)>>] = 0
                    /\ skip_manager'.last_valid_number[CodeOf(rn)] >= StudentOf(rn)
                    /\ skip_manager'.last_valid_number[CodeOf(rn)]
                          \in {StudentOf(rn),
                               Get(skip_manager.last_valid_number, CodeOf(rn), 0)}
                    /\ skip_manager'.council_limits = skip_manager.council_limits
                    /\ skip_manager'.skip_ranges = skip_manager.skip_ranges
                    /\ skip_manager'.invalid_patterns = skip_manager.invalid_patterns
                    /\ skip_manager'.skip_ranges_file = skip_manager.skip_ranges_file
                    /\ skip_manager'.council_limits_file = skip_manager.council_limits_file
                    /\ skip_manager'.invalid_patterns_file = skip_manager.invalid_patterns_file]_vars

\* a success for the hot identifier, which had failed before, in a region whose
\* last valid number is the larger one of an earlier success
C31_Witness ==
    /\ mode = "ledger"
    /\ HotId \in skip_manager.invalid_patterns
    /\ Get(skip_manager.consecutive_failures, <<CodeOf(HotId), StudentOf(HotId)>>, 1) = 0
    /\ Get(skip_manager.last_valid_number, HotCouncil, 0) = StudentOf(OtherId)

\* C32: in a run of either orchestrator record_failure is called only for an
\* identifier that is not yet in the invalid set: a step raises the
\* consecutive-failure counter of an identifier in flight only when the
\* identifier was not in the invalid set; every counter of the ledger is at
\* most 1 after every step; and after the ledger is loaded the skip ranges
\* never change, so the promotion at failure_threshold is not reached.
C32_CountersAtMostOne ==
    [][(mode \in Modes) =>
          /\ skip_manager'.consecutive_failures
                \in [DOMAIN skip_manager'.consecutive_failures -> 0..1]
          /\ pc = "fetch" =>
                \A i \in 1..Len(inflight) :
                    LET k == <<CodeOf(inflight[i]), StudentOf(inflight[i])>>
                    IN  Get(skip_manager'.consecutive_failures, k, 0)
                           > Get(skip_manager.consecutive_failures, k, 0)
                        => inflight[i] \notin skip_manager.invalid_patterns
          /\ pc # "init" => skip_manager'.skip_ranges = skip_manager.skip_ranges]_vars

\* a finished run that recorded failures and successes
C32_Witness ==
    /\ mode \in Modes /\ pc = "done"
    /\ \E k \in DOMAIN skip_manager.consecutive_failures :
          skip_manager.consecutive_failures[k] = 1
    /\ \E k \in DOMAIN skip_manager.consecutive_failures :
          skip_manager.consecutive_failures[k] = 0

\* C33: in both modes, between steps and when the run has ended, the totals
\* satisfy processed = successful + failed.
C33_ProcessedIsSuccessfulPlusFailed ==
    (mode \in Modes /\ pc \in {"loop", "final", "done"}) =>
        stats.total_processed = stats.total_successful + stats.total_failed

\* C34: promotion adds one skip range per dead zone: the list of skip ranges
\* of a region never holds two ranges with the same start and end.
C34_NoDuplicateSkipRange ==
    (mode = "ledger") =>
        \A c \in DOMAIN skip_manager.skip_ranges :
            \A i, j \in 1..Len(skip_manager.skip_ranges[c]) :
                (/\ skip_manager.skip_ranges[c][i].start = skip_manager.skip_ranges[c][j].start
                 /\ skip_manager.skip_ranges[c][i].end = skip_manager.skip_ranges[c][j].end)
                => i = j

\* C35: when a run has ended the counts of the result sink agree with the
\* totals of the orchestrator: the sink's successful count is the number of
\* stored records and the orchestrator's successful total, and the sink's
\* processed and failed counts are the orchestrator's processed and failed
\* totals.
C35_SinkCountsAgree ==
    (mode \in Modes /\ pc = "done") =>
        /\ results_saver.stats.successful = Len(results_saver.results)
        /\ results_saver.stats.successful = stats.total_successful
        /\ results_saver.stats.total_processed = stats.total_processed
        /\ results_saver.stats.failed = stats.total_failed

\* C36: for every configuration the total_batches of get_stats is the number
\* of batches generate_batches yields with the configured batch size, and the
\* total count is the number of regions times the numbers per region.
C36_StatsMatchBatches ==
    (mode = "generator" /\ ret.op = "get_stats" /\ generator \in SmallGenerators) =>
        /\ ret.result.total_batches = Len(generate_batches(generator, ConfigBatchSize))
        /\ ret.result.total_registration_numbers
              = Len(generator.council_codes)
                  * (generator.student_number_max - generator.student_number_min + 1)

=============================================================================
